---- MODULE Spec2Model ----
(***************************************************************************)
(* Tool-chat context selection of backend/api/views/tool_chat_views.py:    *)
(* explicit-mention detection, relevance scoring, intent classification,   *)
(* selection and context rendering (_build_context and its helpers).       *)
(*                                                                         *)
(* Python strings are TLA+ strings; a character is a string of length 1.   *)
(* A missing card field and an empty one are both "" (every read in the    *)
(* source is `tool.get(f) or ""`), a missing flag is FALSE.                *)
(* Scores are kept in tenths (the weights 1.8, 1.3, 1.0, 0.4 are 18, 13,   *)
(* 10, 4), so that the sums are exact.                                     *)
(***************************************************************************)
EXTENDS Integers, Sequences, FiniteSets, TLC

VARIABLES cards, category_map, query, current_tool_id,
          pc, explicit_ids, scored, best_score, best_tool, top_tools,
          branch, related, selected, context_text, matched_tool

context_vars == <<cards, category_map, query, current_tool_id,
                  pc, explicit_ids, scored, best_score, best_tool, top_tools,
                  branch, related, selected, context_text, matched_tool>>

\* The chat endpoint (tool_chat_view): the request and the server's
\* configuration, the handler's position and locals, the calls it has made
\* outside the process, and its response.
VARIABLES request_data, environ, sdk_installed, metadata_files, debug,
          stage, message, api_key, model, history, user_prompt, completion,
          effects, response

chat_vars == <<request_data, environ, sdk_installed, metadata_files, debug,
               stage, message, api_key, model, history, user_prompt, completion,
               effects, response>>

\* The session endpoints (auth_views.py): the users of the site, the user
\* of the client's session ("" when anonymous), and the last request with
\* its response.
VARIABLES users, session_user, auth_request, auth_response

auth_vars == <<users, session_user, auth_request, auth_response>>

\* The text-share endpoints (text_share_views.py): the server's clock in
\* seconds and how often it was advanced, the stored shares, the creations
\* in progress, and the last answer of a read endpoint.
VARIABLES clock, ticks, shares, creating, share_reply

share_vars == <<clock, ticks, shares, creating, share_reply>>

\* The bulk send of send_email (email_views.py): the request, the
\* handler's position and locals, the indices of the entries the loop has
\* taken up, the mails that were sent, and the response.
VARIABLES send_request, send_pc, recipients, idx, success_count, errors,
          attempted, outbox, send_response

send_vars == <<send_request, send_pc, recipients, idx, success_count, errors,
               attempted, outbox, send_response>>

\* Everything outside _build_context.
endpoint_vars == <<chat_vars, auth_vars, share_vars, send_vars>>

\* Everything outside the chat endpoint and the _build_context it calls.
beyond_chat == <<auth_vars, share_vars, send_vars>>

vars == <<context_vars, endpoint_vars>>

inputs == <<cards, category_map, query, current_tool_id>>

---------------------------------------------------------------------------
(* Bounds of the model. *)

\* Longest catalog drawn in Init.
MaxCards == 6

\* Most vocabulary words in a generated query.
MaxWords == 2

---------------------------------------------------------------------------
(* Python string primitives. *)

CharAt(s, i) == SubSeq(s, i, i)

\* `sub in s`
Contains(s, sub) ==
    \/ sub = ""
    \/ \E i \in 1..(Len(s) - Len(sub) + 1) : SubSeq(s, i, i + Len(sub) - 1) = sub

UpperAlphabet == "ABCDEFGHIJKLMNOPQRSTUVWXYZ"
LowerAlphabet == "abcdefghijklmnopqrstuvwxyz"

UpperToLower == [i \in 1..26 |-> <<CharAt(UpperAlphabet, i), CharAt(LowerAlphabet, i)>>]

LowerOf == [c \in {UpperToLower[i][1] : i \in 1..26} |->
              UpperToLower[CHOOSE i \in 1..26 : UpperToLower[i][1] = c][2]]

LowerChar(c) == IF c \in DOMAIN LowerOf THEN LowerOf[c] ELSE c

RECURSIVE Lower(_)
\* str.lower()
Lower(s) ==
    IF s = "" THEN ""
    ELSE LowerChar(CharAt(s, 1)) \o Lower(SubSeq(s, 2, Len(s)))

IsSpace(c) == c \in {" ", "\t", "\n"}

RECURSIVE LStrip(_)
LStrip(s) ==
    IF s # "" /\ IsSpace(CharAt(s, 1)) THEN LStrip(SubSeq(s, 2, Len(s))) ELSE s

RECURSIVE RStrip(_)
RStrip(s) ==
    IF s # "" /\ IsSpace(CharAt(s, Len(s))) THEN RStrip(SubSeq(s, 1, Len(s) - 1)) ELSE s

\* str.strip()
Strip(s) == RStrip(LStrip(s))

\* (value or "").strip().lower()
Norm(s) == Lower(Strip(s))

RECURSIVE JoinWith(_, _)
\* sep.join(parts)
JoinWith(sep, parts) ==
    IF Len(parts) = 0 THEN ""
    ELSE IF Len(parts) = 1 THEN parts[1]
    ELSE parts[1] \o sep \o JoinWith(sep, Tail(parts))

\* seq[:n]
Take(seq, n) == SubSeq(seq, 1, IF Len(seq) < n THEN Len(seq) ELSE n)

---------------------------------------------------------------------------
(* tool_chat_static.py *)

WordAlphabet == "abcdefghijklmnopqrstuvwxyz0123456789_"

\* One character of TOOL_WORD_RE = [a-z0-9_]+
WordChars == {CharAt(WordAlphabet, i) : i \in 1..Len(WordAlphabet)}

IsWordChar(c) == c \in WordChars

QUERY_STOP_TOKENS ==
    {"a", "an", "and", "are", "be", "can", "for", "from", "how", "i", "in",
     "is", "me", "of", "on", "please", "that", "the", "to", "what", "which",
     "with", "you"}

\* Mutant: the tool words are not list words themselves.
ListIntentTokensNoToolWords ==
    {"all", "category", "categories", "list", "name", "names", "related"}

LIST_INTENT_TOKENS ==
    {"all", "category", "categories", "list", "name", "names", "related",
     "tool", "tools"}

MULTI_TOOL_QUERY_PHRASES ==
    {"all tools", "list tools", "list of tools", "names of tools",
     "which tools", "what tools", "what are the tools"}

ALL_TOOLS_QUERY_PHRASE == "all tools"

\* Imported by tool_chat_views.py; its definition is not in the source tree.
OFFLINE_QUERY_PHRASES == {"offline"}

TOOL_TOKEN == "tool"
TOOLS_TOKEN == "tools"

UNKNOWN_TOOL_TITLE == "Unknown tool"
UNKNOWN_CATEGORY_LABEL == "Unknown"
YES_TEXT == "yes"
NO_TEXT == "no"

---------------------------------------------------------------------------
(* Tokenizer *)

RECURSIVE FindAll(_, _, _)
\* TOOL_WORD_RE.findall(s) from position i, cur being the run read so far.
FindAll(s, i, cur) ==
    IF i > Len(s)
    THEN IF cur = "" THEN <<>> ELSE <<cur>>
    ELSE IF IsWordChar(CharAt(s, i))
         THEN FindAll(s, i + 1, cur \o CharAt(s, i))
         ELSE (IF cur = "" THEN <<>> ELSE <<cur>>) \o FindAll(s, i + 1, "")

\* _tokens
Tokens(value) == FindAll(Lower(value), 1, "")

\* Mutant: the stop-words are not filtered out.
KeepSignalNoStop(t) == Len(t) >= 2

\* len(token) >= 2 and token not in QUERY_STOP_TOKENS
KeepSignal(t) == Len(t) >= 2 /\ t \notin QUERY_STOP_TOKENS

\* _query_signal_tokens
QuerySignalTokens(value) == SelectSeq(Tokens(value), KeepSignal)

SeqToSet(seq) == {seq[i] : i \in 1..Len(seq)}

---------------------------------------------------------------------------
(* Catalog entries.  A dict card carries pytype "dict"; any other JSON     *)
(* value of the catalog (here a string) carries its own type and no field. *)

NoneTool == [pytype |-> "NoneType"]

IsDict(tool) == tool.pytype = "dict"

\* dict.get(key, default)
MapGet(map, key, default) == IF key \in DOMAIN map THEN map[key] ELSE default

---------------------------------------------------------------------------
(* Relevance scorer, in tenths. *)

\* if tool_id and tool_id in explicit_tool_ids: score += 10
ExplicitScore(tool_id, explicit_tool_ids) ==
    IF tool_id # "" /\ tool_id \in explicit_tool_ids THEN 100 ELSE 0

\* Mutant: the bias is not suppressed by the mention of another tool.
CurrentBiasUnsuppressed(current, tool_id, explicit_tool_ids) ==
    IF current # "" /\ tool_id = current THEN 30 ELSE 0

\* if current and tool_id == current and
\*    (not explicit_tool_ids or current in explicit_tool_ids): score += 3
CurrentBias(current, tool_id, explicit_tool_ids) ==
    IF /\ current # ""
       /\ tool_id = current
       /\ (explicit_tool_ids = {} \/ current \in explicit_tool_ids)
    THEN 30 ELSE 0

\* the three literal-substring terms
LiteralScore(q, tool_id, title, path) ==
      (IF tool_id # "" /\ Contains(q, tool_id) THEN 60 ELSE 0)
    + (IF title # "" /\ Contains(q, title) THEN 50 ELSE 0)
    + (IF path # "" /\ Contains(q, path) THEN 40 ELSE 0)

\* Mutant: the catch-all term over the joined fields is left out.
TokenScoreNoBlob(token, tool_id, title, description, detailed, text_blob) ==
      (IF Contains(tool_id, token) THEN 20 ELSE 0)
    + (IF Contains(title, token) THEN 18 ELSE 0)
    + (IF Contains(description, token) THEN 13 ELSE 0)
    + (IF Contains(detailed, token) THEN 10 ELSE 0)

\* the body of `for token in _query_signal_tokens(q)`
TokenScore(token, tool_id, title, description, detailed, text_blob) ==
      (IF Contains(tool_id, token) THEN 20 ELSE 0)
    + (IF Contains(title, token) THEN 18 ELSE 0)
    + (IF Contains(description, token) THEN 13 ELSE 0)
    + (IF Contains(detailed, token) THEN 10 ELSE 0)
    + (IF Contains(text_blob, token) THEN 4 ELSE 0)

RECURSIVE TokenLoop(_, _, _, _, _, _)
TokenLoop(tokens, tool_id, title, description, detailed, text_blob) ==
    IF Len(tokens) = 0 THEN 0
    ELSE TokenScore(Head(tokens), tool_id, title, description, detailed, text_blob)
         + TokenLoop(Tail(tokens), tool_id, title, description, detailed, text_blob)

\* _score_tool
ScoreTool(tool, qry, cur_id, explicit_tool_ids) ==
    LET q == Lower(qry)
        current == Norm(cur_id)
        tool_id == Norm(tool.id)
        title == Norm(tool.title)
        description == Norm(tool.description)
        detailed == Norm(tool.detailedDescription)
        path == Norm(tool.path)
        text_blob == JoinWith(" ", <<tool_id, title, description, detailed, path>>)
    IN    ExplicitScore(tool_id, explicit_tool_ids)
        + CurrentBias(current, tool_id, explicit_tool_ids)
        + LiteralScore(q, tool_id, title, path)
        + TokenLoop(QuerySignalTokens(q), tool_id, title, description, detailed, text_blob)

---------------------------------------------------------------------------
(* Explicit-mention detector *)

\* Mutant: the id itself is not looked for, only the path and the title.
MentionedInNoId(q, tool) ==
    LET tool_id == Norm(tool.id)
        title == Norm(tool.title)
        path == Norm(tool.path)
    IN  /\ tool_id # ""
        /\ \/ (path # "" /\ Contains(q, path))
           \/ (title # "" /\ Contains(q, title))

\* Mutant: only the id is looked for, not the path and the title.
MentionedInIdOnly(q, tool) ==
    LET tool_id == Norm(tool.id)
    IN  tool_id # "" /\ Contains(q, tool_id)

\* One pass of the loop of _explicit_tool_ids: does `tool` add its id?
MentionedIn(q, tool) ==
    LET tool_id == Norm(tool.id)
        title == Norm(tool.title)
        path == Norm(tool.path)
    IN  /\ tool_id # ""
        /\ \/ Contains(q, tool_id)
           \/ (path # "" /\ Contains(q, path))
           \/ (title # "" /\ Contains(q, title))

\* _explicit_tool_ids
ExplicitToolIds(qry, cds) ==
    LET q == Norm(qry)
    IN  IF q = "" THEN {}
        ELSE {Norm(cds[i].id) : i \in {j \in 1..Len(cds) : IsDict(cds[j]) /\ MentionedIn(q, cds[j])}}

---------------------------------------------------------------------------
(* Intent classifier *)

\* Mutant: only the fixed phrases are recognised, not the token rule.
IsMultiToolRequestPhraseOnly(qry) ==
    LET q == Norm(qry)
    IN  q # "" /\ \E phrase \in MULTI_TOOL_QUERY_PHRASES : Contains(q, phrase)

\* _is_multi_tool_request
IsMultiToolRequest(qry) ==
    LET q == Norm(qry)
        tokens == SeqToSet(Tokens(q))
        has_tool_word == TOOL_TOKEN \in tokens \/ TOOLS_TOKEN \in tokens
        has_list_intent == (tokens \cap LIST_INTENT_TOKENS) # {}
    IN  IF q = "" THEN FALSE
        ELSE IF \E phrase \in MULTI_TOOL_QUERY_PHRASES : Contains(q, phrase) THEN TRUE
        ELSE has_tool_word /\ has_list_intent

\* _is_offline_list_request
IsOfflineListRequest(qry) ==
    LET q == Norm(qry)
    IN  IF q = "" \/ ~IsMultiToolRequest(q) THEN FALSE
        ELSE \E phrase \in OFFLINE_QUERY_PHRASES : Contains(q, phrase)

---------------------------------------------------------------------------
(* Ranking: sorted(..., key=score, reverse=True) is stable. *)

\* [tool for tool in cards if isinstance(tool, dict)]
ValidCards(cds) == SelectSeq(cds, IsDict)

RECURSIVE ScorePairs(_, _, _, _)
\* The generator of (score, tool) pairs, in catalog order.
ScorePairs(cds, qry, cur_id, explicit) ==
    IF Len(cds) = 0 THEN <<>>
    ELSE (IF IsDict(Head(cds))
          THEN << <<ScoreTool(Head(cds), qry, cur_id, explicit), Head(cds)>> >>
          ELSE <<>>)
         \o ScorePairs(Tail(cds), qry, cur_id, explicit)

RECURSIVE InsertByScoreUnstable(_, _)
\* Mutant: an unstable sort, a pair going ahead of the pairs of equal score.
InsertByScoreUnstable(pair, srt) ==
    IF Len(srt) = 0 THEN <<pair>>
    ELSE IF Head(srt)[1] > pair[1]
         THEN <<Head(srt)>> \o InsertByScoreUnstable(pair, Tail(srt))
         ELSE <<pair>> \o srt

RECURSIVE InsertByScore(_, _)
\* `pair` put into the descending list `srt`, behind every pair whose score is
\* not lower: pairs of equal score keep the order in which they arrive.
InsertByScore(pair, srt) ==
    IF Len(srt) = 0 THEN <<pair>>
    ELSE IF Head(srt)[1] >= pair[1]
         THEN <<Head(srt)>> \o InsertByScore(pair, Tail(srt))
         ELSE <<pair>> \o srt

RECURSIVE SortInto(_, _)
SortInto(pairs, srt) ==
    IF Len(pairs) = 0 THEN srt
    ELSE SortInto(Tail(pairs), InsertByScore(Head(pairs), srt))

\* sorted(pairs, key=lambda item: item[0], reverse=True)
SortedByScore(pairs) == SortInto(pairs, <<>>)

RECURSIVE ToolsOf(_)
\* [tool for score, tool in pairs]
ToolsOf(pairs) ==
    IF Len(pairs) = 0 THEN <<>> ELSE <<Head(pairs)[2]>> \o ToolsOf(Tail(pairs))

PositiveScore(pair) == pair[1] > 0

---------------------------------------------------------------------------
(* Selection engine *)

\* focus_tokens of _select_related_tools_for_list
FocusTokens(q) == {t \in SeqToSet(QuerySignalTokens(q)) : t \notin LIST_INTENT_TOKENS}

\* Mutant: the detailed description is searched too, as in the scorer.
SearchableWithDetailed(tool, cat_map) ==
    LET category_id == Norm(tool.categoryId)
        category_label == Norm(MapGet(cat_map, category_id, ""))
    IN  JoinWith(" ", <<Norm(tool.id), Norm(tool.title), Norm(tool.description),
                        Norm(tool.detailedDescription), Norm(tool.path),
                        category_id, category_label>>)

\* searchable of _select_related_tools_for_list
Searchable(tool, cat_map) ==
    LET category_id == Norm(tool.categoryId)
        category_label == Norm(MapGet(cat_map, category_id, ""))
    IN  JoinWith(" ", <<Norm(tool.id), Norm(tool.title), Norm(tool.description),
                        Norm(tool.path), category_id, category_label>>)

\* Mutant: the `if score <= 0: continue` of the loop is left out.
IsRelatedAnyScore(pair, cat_map, focus_tokens, explicit) ==
    LET tool == pair[2]
        tool_id == Norm(tool.id)
        searchable == Searchable(tool, cat_map)
        explicit_match == tool_id # "" /\ tool_id \in explicit
        token_match == /\ focus_tokens # {}
                       /\ \E token \in focus_tokens : Contains(searchable, token)
    IN  explicit_match \/ token_match

\* explicit_match or token_match, for one scored pair
IsRelated(pair, cat_map, focus_tokens, explicit) ==
    LET tool == pair[2]
        tool_id == Norm(tool.id)
        searchable == Searchable(tool, cat_map)
        explicit_match == tool_id # "" /\ tool_id \in explicit
        token_match == /\ focus_tokens # {}
                       /\ \E token \in focus_tokens : Contains(searchable, token)
    IN  pair[1] > 0 /\ (explicit_match \/ token_match)

\* The list `related` built by the loop over scored.
RelatedList(cat_map, qry, scrd, explicit) ==
    LET q == Norm(qry)
        focus_tokens == FocusTokens(q)
        Keep(pair) == IsRelated(pair, cat_map, focus_tokens, explicit)
    IN  ToolsOf(SelectSeq(scrd, Keep))

\* Mutant: the fallbacks keep 3 cards, like the single-tool branch.
ListFallbackThree(valid_cards, scrd) ==
    LET fallback == ToolsOf(SelectSeq(scrd, PositiveScore))
    IN  IF Len(fallback) > 0 THEN Take(fallback, 3) ELSE Take(valid_cards, 3)

\* fallback[:5] if fallback else valid_cards[:5]
ListFallback(valid_cards, scrd) ==
    LET fallback == ToolsOf(SelectSeq(scrd, PositiveScore))
    IN  IF Len(fallback) > 0 THEN Take(fallback, 5) ELSE Take(valid_cards, 5)

\* Mutant: no fallback when no card works offline.
OfflineListNoFallback(valid_cards) ==
    LET IsOffline(tool) == tool.offlineEnabled
    IN  SelectSeq(valid_cards, IsOffline)

\* offline_tools if offline_tools else valid_cards[:5]
OfflineList(valid_cards) ==
    LET IsOffline(tool) == tool.offlineEnabled
        offline_tools == SelectSeq(valid_cards, IsOffline)
    IN  IF Len(offline_tools) > 0 THEN offline_tools ELSE Take(valid_cards, 5)

\* Mutant: no "all tools" bypass.
SelectRelatedNoBypass(cds, cat_map, qry, scrd, explicit) ==
    LET q == Norm(qry)
        valid_cards == ValidCards(cds)
        rel == RelatedList(cat_map, qry, scrd, explicit)
    IN  IF Len(valid_cards) = 0 THEN <<>>
        ELSE IF IsOfflineListRequest(q) THEN OfflineList(valid_cards)
        ELSE IF Len(rel) > 0 THEN rel
        ELSE ListFallback(valid_cards, scrd)

\* _select_related_tools_for_list
SelectRelatedToolsForList(cds, cat_map, qry, scrd, explicit) ==
    LET q == Norm(qry)
        valid_cards == ValidCards(cds)
        rel == RelatedList(cat_map, qry, scrd, explicit)
    IN  IF Len(valid_cards) = 0 THEN <<>>
        ELSE IF Contains(q, ALL_TOOLS_QUERY_PHRASE) THEN valid_cards
        ELSE IF IsOfflineListRequest(q) THEN OfflineList(valid_cards)
        ELSE IF Len(rel) > 0 THEN rel
        ELSE ListFallback(valid_cards, scrd)

\* Whether a call of _select_related_tools_for_list reaches the loop that
\* builds `related`.
FilterRuns(cds, qry) ==
    LET q == Norm(qry)
    IN  /\ Len(ValidCards(cds)) > 0
        /\ ~Contains(q, ALL_TOOLS_QUERY_PHRASE)
        /\ ~IsOfflineListRequest(q)

---------------------------------------------------------------------------
(* Context renderer *)

\* Mutant: the two flags are read the wrong way round.
ToolContextLineFlagsSwapped(tool, category_label) ==
    LET title == IF tool.title # "" THEN tool.title ELSE UNKNOWN_TOOL_TITLE
    IN  "- " \o title \o " (id: " \o tool.id \o ", category: " \o category_label
        \o ", path: " \o tool.path \o ")\n"
        \o "  Short: " \o tool.description \o "\n"
        \o "  Details: " \o tool.detailedDescription \o "\n"
        \o "  Offline: " \o (IF tool.authRequired THEN YES_TEXT ELSE NO_TEXT)
        \o ", Auth required: " \o (IF tool.offlineEnabled THEN YES_TEXT ELSE NO_TEXT)

\* TOOL_CONTEXT_TEMPLATE.format(...) in _tool_context_line
ToolContextLine(tool, category_label) ==
    LET title == IF tool.title # "" THEN tool.title ELSE UNKNOWN_TOOL_TITLE
    IN  "- " \o title \o " (id: " \o tool.id \o ", category: " \o category_label
        \o ", path: " \o tool.path \o ")\n"
        \o "  Short: " \o tool.description \o "\n"
        \o "  Details: " \o tool.detailedDescription \o "\n"
        \o "  Offline: " \o (IF tool.offlineEnabled THEN YES_TEXT ELSE NO_TEXT)
        \o ", Auth required: " \o (IF tool.authRequired THEN YES_TEXT ELSE NO_TEXT)

\* Mutant: the default is the category id even when it is empty.
CategoryLabelNoSentinel(tool, cat_map) ==
    LET category_id == Norm(tool.categoryId)
    IN  MapGet(cat_map, category_id, category_id)

\* category_map.get(category_id, category_id or UNKNOWN_CATEGORY_LABEL)
CategoryLabel(tool, cat_map) ==
    LET category_id == Norm(tool.categoryId)
    IN  MapGet(cat_map, category_id,
               IF category_id # "" THEN category_id ELSE UNKNOWN_CATEGORY_LABEL)

RECURSIVE ContextLines(_, _)
\* The list `lines` of _build_context.
ContextLines(sel, cat_map) ==
    IF Len(sel) = 0 THEN <<>>
    ELSE <<ToolContextLine(Head(sel), CategoryLabel(Head(sel), cat_map))>>
         \o ContextLines(Tail(sel), cat_map)

\* "\n".join(lines)
RenderContext(sel, cat_map) == JoinWith("\n", ContextLines(sel, cat_map))

---------------------------------------------------------------------------
(* Inputs of one scoring pass: the catalog and the category map as the     *)
(* caller hands them over, the query and the current-tool id.              *)

Card(id, title, description, detailed, path, categoryId, offline, auth) ==
    [pytype |-> "dict", id |-> id, title |-> title, description |-> description,
     detailedDescription |-> detailed, path |-> path, categoryId |-> categoryId,
     offlineEnabled |-> offline, authRequired |-> auth]

\* A catalog entry that is not a dict.
NonDict == [pytype |-> "str"]

Pool ==
    << Card("zip", "", "", "tool", "/zip/png", "biz", FALSE, FALSE),
       NonDict,
       Card("qr", "QR Tool", "make qr codes", "export png tool", "/qr", "biz", TRUE, FALSE),
       Card("pdf-merge", "PDF Merge", "join files", "a tool for pdf", " /pdf", "Docs ", FALSE, TRUE),
       Card("", "Notes", "plain tool", "", "", "", FALSE, FALSE),
       Card("Img ", "Image Crop", "crop an image", "png tool", "/img", "", TRUE, FALSE),
       Card("csv", "Csv Tool", "png to csv", "", "/csv", "docs", FALSE, TRUE) >>

\* Pool read cyclically: n entries from place s on.
Window(s, n) == [k \in 1..n |-> Pool[((s + k - 2) % Len(Pool)) + 1]]

Catalogs == {Window(s, n) : s \in 1..Len(Pool), n \in 0..MaxCards}

CategoryMaps == {[x \in {"biz"} |-> "Image Biz"], [x \in {} |-> ""]}

Vocabulary == {"tool", "tools", "all", "qr"}

GeneratedQueries ==
    UNION {{JoinWith(" ", w) : w \in [1..n -> Vocabulary]} : n \in 0..MaxWords}

FixedQueries ==
    {"  ", "what are the tools", "how do I resize an image", "list all tools",
     "list tools offline", "Notes", "open /pdf please", "PDF Merge",
     "which tools", "what is the for", "asdf qwerty zzz", "Tell me ALL TOOLS",
     "img tool", "docs tool", "image tool", "all tools like qr", "qr png tool",
     "image tools", "png", "qr png", "a 7 x",
     "png png", "Offline tools like PDF Merge"}

Queries == GeneratedQueries \cup FixedQueries

\* None (modelled as ""), or an id as a page may send it.
CurrentToolIds == {"", " QR "}

\* The catalog and the category map of ToolChatContextSelectionTests; the
\* cards of the tests carry no flags.
TestCards ==
    << Card("image-compressor", "Image Compressor", "Compress images locally.",
            "Reduce image file size.", "/image-compressor", "utilities", FALSE, FALSE),
       Card("image-crop-tool", "Image Crop Tool", "Crop images locally.",
            "Crop and export in multiple formats.", "/image-crop-tool", "utilities",
            FALSE, FALSE),
       Card("invoice-generator", "Invoice / Receipt Generator", "Create invoices.",
            "Create professional invoice PDFs.", "/invoice-generator", "business",
            FALSE, FALSE),
       Card("text-to-qr", "Text to QR Builder", "Generate QR codes from text.",
            "Download the final image as PNG.", "/qr-code-generator", "business",
            FALSE, FALSE) >>

TestCategoryMap ==
    [x \in {"utilities", "business"} |->
        IF x = "utilities" THEN "Utilities" ELSE "Business"]

\* The four cards in every order, and the two cards of the second test.
TestCatalogs ==
    {[k \in 1..4 |-> TestCards[p[k]]] : p \in Permutations(1..4)}
        \cup {<<TestCards[1], TestCards[3]>>}

TestQueries ==
    {"what are the names of tools related to image", "list all tools",
     "tell me about image compressor", "what does invoice tool do"}

TestCurrentToolIds == {"", "text-to-qr"}

\* The arguments of one call: drawn from the pool, or those of the tests.
Arguments ==
    \/ /\ cards \in Catalogs
       /\ category_map \in CategoryMaps
       /\ query \in Queries
       /\ current_tool_id \in CurrentToolIds
    \/ /\ cards \in TestCatalogs
       /\ category_map = TestCategoryMap
       /\ query \in TestQueries
       /\ current_tool_id \in TestCurrentToolIds

---------------------------------------------------------------------------
(* Python values that are not strings of the model: None (also a missing   *)
(* key read with .get), and the states in which an endpoint handles no     *)
(* request.                                                                *)

PyNone == [pytype |-> "NoneType"]

\* No chat request is being handled.
ChatIdle ==
    /\ request_data = PyNone
    /\ environ = [name \in {} |-> ""]
    /\ sdk_installed = FALSE
    /\ metadata_files = PyNone
    /\ debug = FALSE
    /\ stage = "idle"
    /\ message = ""
    /\ api_key = ""
    /\ model = ""
    /\ history = <<>>
    /\ user_prompt = ""
    /\ completion = PyNone
    /\ effects = <<>>
    /\ response = PyNone

\* No session request has been handled; nobody has signed up.
AuthIdle ==
    /\ users = {}
    /\ session_user = ""
    /\ auth_request = PyNone
    /\ auth_response = PyNone

\* No share is stored and none is being created.
ShareIdle ==
    /\ clock = 0
    /\ ticks = 0
    /\ shares = {}
    /\ creating = <<>>
    /\ share_reply = PyNone

\* No send request is being handled.
SendIdle ==
    /\ send_request = PyNone
    /\ send_pc = "idle"
    /\ recipients = <<>>
    /\ idx = 0
    /\ success_count = 0
    /\ errors = <<>>
    /\ attempted = <<>>
    /\ outbox = <<>>
    /\ send_response = PyNone

---------------------------------------------------------------------------
(* _build_context, step by step. *)

Init ==
    /\ Arguments
    /\ ChatIdle
    /\ AuthIdle
    /\ ShareIdle
    /\ SendIdle
    /\ pc = "start"
    /\ explicit_ids = {}
    /\ scored = <<>>
    /\ best_score = 0
    /\ best_tool = NoneTool
    /\ top_tools = <<>>
    /\ branch = ""
    /\ related = <<>>
    /\ selected = <<>>
    /\ context_text = ""
    /\ matched_tool = NoneTool

\* explicit_ids = _explicit_tool_ids(query, cards)
Explicit ==
    /\ pc = "start"
    /\ explicit_ids' = ExplicitToolIds(query, cards)
    /\ pc' = "score"
    /\ UNCHANGED <<inputs, scored, best_score, best_tool, top_tools, branch,
                   related, selected, context_text, matched_tool>>
    /\ UNCHANGED endpoint_vars

\* Mutant: the catalog itself is sorted (cards.sort) instead of a copy.
ScoreAndSortInPlace ==
    /\ pc = "score"
    /\ LET srt == SortedByScore(ScorePairs(cards, query, current_tool_id, explicit_ids))
       IN  /\ scored' = srt
           /\ cards' = ToolsOf(srt)
           /\ best_score' = IF Len(srt) > 0 THEN srt[1][1] ELSE 0
           /\ best_tool' = IF Len(srt) > 0 THEN srt[1][2] ELSE NoneTool
           /\ top_tools' = ToolsOf(SelectSeq(Take(srt, 3), PositiveScore))
    /\ pc' = "select"
    /\ UNCHANGED <<category_map, query, current_tool_id, explicit_ids, branch,
                   related, selected, context_text, matched_tool>>
    /\ UNCHANGED endpoint_vars

\* scored = sorted(...); best_score, best_tool = ...; top_tools = ...
ScoreAndSort ==
    /\ pc = "score"
    /\ LET srt == SortedByScore(ScorePairs(cards, query, current_tool_id, explicit_ids))
       IN  /\ scored' = srt
           /\ best_score' = IF Len(srt) > 0 THEN srt[1][1] ELSE 0
           /\ best_tool' = IF Len(srt) > 0 THEN srt[1][2] ELSE NoneTool
           /\ top_tools' = ToolsOf(SelectSeq(Take(srt, 3), PositiveScore))
    /\ pc' = "select"
    /\ UNCHANGED <<inputs, explicit_ids, branch, related, selected,
                   context_text, matched_tool>>
    /\ UNCHANGED endpoint_vars

\* Mutant: the threshold of a strong match is 1 instead of 2.
StrongMatchLow(tool, score) == tool # NoneTool /\ score >= 10

\* Mutant: a best card that scored nothing is reported too.
MatchedToolAlways(tool, score) == IF score >= 0 THEN tool ELSE NoneTool

\* best_tool and best_score >= 2   (a scored tool is a dict of a catalog
\* card; best_tool is falsy only when nothing was scored)
StrongMatch(tool, score) == tool # NoneTool /\ score >= 20

\* best_tool if best_score > 0 else None
MatchedTool(tool, score) == IF score > 0 THEN tool ELSE NoneTool

\* if _is_multi_tool_request(query): selected = _select_related_tools_for_list(...)
SelectList ==
    /\ pc = "select"
    /\ IsMultiToolRequest(query)
    /\ selected' = SelectRelatedToolsForList(cards, category_map, query, scored, explicit_ids)
    /\ related' = IF FilterRuns(cards, query)
                  THEN RelatedList(category_map, query, scored, explicit_ids)
                  ELSE <<>>
    /\ branch' = "list"
    /\ pc' = "render"
    /\ UNCHANGED <<inputs, explicit_ids, scored, best_score, best_tool, top_tools,
                   context_text, matched_tool>>
    /\ UNCHANGED endpoint_vars

\* elif best_tool and best_score >= 2: selected = [best_tool]
SelectBest ==
    /\ pc = "select"
    /\ ~IsMultiToolRequest(query)
    /\ StrongMatch(best_tool, best_score)
    /\ selected' = <<best_tool>>
    /\ branch' = "best"
    /\ pc' = "render"
    /\ UNCHANGED <<inputs, explicit_ids, scored, best_score, best_tool, top_tools,
                   related, context_text, matched_tool>>
    /\ UNCHANGED endpoint_vars

\* Mutant: the top tools are shown in catalog order, not in rank order.
SelectTopCatalogOrder ==
    /\ pc = "select"
    /\ ~IsMultiToolRequest(query)
    /\ ~StrongMatch(best_tool, best_score)
    /\ Len(top_tools) > 0
    /\ LET InTop(tool) == \E i \in 1..Len(top_tools) : top_tools[i] = tool
       IN  selected' = SelectSeq(ValidCards(cards), InTop)
    /\ branch' = "top"
    /\ pc' = "render"
    /\ UNCHANGED <<inputs, explicit_ids, scored, best_score, best_tool, top_tools,
                   related, context_text, matched_tool>>
    /\ UNCHANGED endpoint_vars

\* elif top_tools: selected = top_tools
SelectTop ==
    /\ pc = "select"
    /\ ~IsMultiToolRequest(query)
    /\ ~StrongMatch(best_tool, best_score)
    /\ Len(top_tools) > 0
    /\ selected' = top_tools
    /\ branch' = "top"
    /\ pc' = "render"
    /\ UNCHANGED <<inputs, explicit_ids, scored, best_score, best_tool, top_tools,
                   related, context_text, matched_tool>>
    /\ UNCHANGED endpoint_vars

\* Mutant: the generic default keeps 5 entries, like the list fallback.
SelectDefaultFive ==
    /\ pc = "select"
    /\ ~IsMultiToolRequest(query)
    /\ ~StrongMatch(best_tool, best_score)
    /\ Len(top_tools) = 0
    /\ selected' = Take(cards, 5)
    /\ branch' = "default"
    /\ pc' = "render"
    /\ UNCHANGED <<inputs, explicit_ids, scored, best_score, best_tool, top_tools,
                   related, context_text, matched_tool>>
    /\ UNCHANGED endpoint_vars

\* else: selected = cards[:3]
SelectDefault ==
    /\ pc = "select"
    /\ ~IsMultiToolRequest(query)
    /\ ~StrongMatch(best_tool, best_score)
    /\ Len(top_tools) = 0
    /\ selected' = Take(cards, 3)
    /\ branch' = "default"
    /\ pc' = "render"
    /\ UNCHANGED <<inputs, explicit_ids, scored, best_score, best_tool, top_tools,
                   related, context_text, matched_tool>>
    /\ UNCHANGED endpoint_vars

AllDicts(seq) == \A i \in 1..Len(seq) : IsDict(seq[i])

\* The rendering loop and the return.
Render ==
    /\ pc = "render"
    /\ AllDicts(selected)
    /\ context_text' = RenderContext(selected, category_map)
    /\ matched_tool' = MatchedTool(best_tool, best_score)
    /\ pc' = "done"
    /\ UNCHANGED <<inputs, explicit_ids, scored, best_score, best_tool, top_tools,
                   branch, related, selected>>
    /\ UNCHANGED endpoint_vars

\* tool.get on a selected entry that is not a dict raises AttributeError.
RenderRaises ==
    /\ pc = "render"
    /\ ~AllDicts(selected)
    /\ pc' = "raised"
    /\ UNCHANGED <<inputs, explicit_ids, scored, best_score, best_tool, top_tools,
                   branch, related, selected, context_text, matched_tool>>
    /\ UNCHANGED endpoint_vars

Next ==
    \/ Explicit
    \/ ScoreAndSort
    \/ SelectList
    \/ SelectBest
    \/ SelectTop
    \/ SelectDefault
    \/ Render
    \/ RenderRaises

Spec == Init /\ [][Next]_vars

---------------------------------------------------------------------------
(* tool_chat_static.py: the texts of the chat endpoint. *)

MAX_HISTORY_ITEMS == 6
MAX_HISTORY_CHARS == 450

ENV_OPENAI_API_KEY == "OPENAI_API_KEY"
ENV_OPENAI_MODEL == "OPENAI_MODEL"
DEFAULT_OPENAI_MODEL == "gpt-5-mini"

NO_HISTORY_TEXT == "No previous chat history."
NONE_TOOL_ID_TEXT == "none"

ERROR_MESSAGE_REQUIRED == "message is required"
ERROR_CHAT_NOT_CONFIGURED == "Chat assistant is not configured on server."
ERROR_OPENAI_SDK_MISSING == "OpenAI SDK is not installed on server."
ERROR_TOOL_METADATA_UNAVAILABLE == "Tool metadata is unavailable."
ERROR_ASSISTANT_REQUEST_FAILED == "Assistant request failed. Please try again."

FALLBACK_NO_TOOL ==
    "I can explain any Torensa tool. Tell me the tool name or open a tool page, "
    \o "and I will give a short summary."
THIS_TOOL_TITLE == "This tool"
AUTH_REQUIRED_TEXT == "requires login"
AUTH_NOT_REQUIRED_TEXT == "does not require login"
OFFLINE_ENABLED_TEXT == "works offline after initial load"
OFFLINE_DISABLED_TEXT == "needs internet access"

HISTORY_ROLE_USER == "user"
HISTORY_ROLE_ASSISTANT == "assistant"

HTTP_200_OK == 200
HTTP_400_BAD_REQUEST == 400
HTTP_500_INTERNAL_SERVER_ERROR == 500
HTTP_502_BAD_GATEWAY == 502
HTTP_503_SERVICE_UNAVAILABLE == 503

---------------------------------------------------------------------------
(* JSON values of a request body. *)

PyStr(s) == [pytype |-> "str", value |-> s]
PyInt(n) == [pytype |-> "int", number |-> n]
PyList(items) == [pytype |-> "list", items |-> items]
PyDict(fields) == [pytype |-> "dict", fields |-> fields]

\* bool(value)
Truthy(v) ==
    CASE v.pytype = "NoneType" -> FALSE
      [] v.pytype = "str" -> v.value # ""
      [] v.pytype = "int" -> v.number # 0
      [] v.pytype = "list" -> Len(v.items) > 0
      [] v.pytype = "dict" -> DOMAIN v.fields # {}

\* value or ""
OrEmpty(v) == IF Truthy(v) THEN v ELSE PyStr("")

\* Whether value.strip() exists; on any other value the call raises
\* AttributeError.
HasStrip(v) == v.pytype = "str"

\* payload.get(key)
Get(d, key) == MapGet(d.fields, key, PyNone)

---------------------------------------------------------------------------
(* _sanitize_history *)

\* raw_history[-MAX_HISTORY_ITEMS:]
LastItems(items) ==
    SubSeq(items,
           IF Len(items) > MAX_HISTORY_ITEMS THEN Len(items) - MAX_HISTORY_ITEMS + 1 ELSE 1,
           Len(items))

\* The role of an item as the loop reads it, lower-cased; the item is a dict
\* whose role can be stripped.
ItemRole(item) == Norm(OrEmpty(Get(item, "role")).value)

ItemHasRole(item) == ItemRole(item) \in {HISTORY_ROLE_USER, HISTORY_ROLE_ASSISTANT}

\* One pass of the loop raises: .strip() on a role or a content that is
\* neither empty nor a string.
ItemRaises(item) ==
    /\ IsDict(item)
    /\ \/ ~HasStrip(OrEmpty(Get(item, "role")))
       \/ /\ ItemHasRole(item)
          /\ ~HasStrip(OrEmpty(Get(item, "content")))

\* What one pass of the loop appends.
ItemLines(item) ==
    IF ~IsDict(item) THEN <<>>
    ELSE IF ~ItemHasRole(item) THEN <<>>
    ELSE LET content == Strip(OrEmpty(Get(item, "content")).value)
         IN  IF content = "" THEN <<>>
             ELSE <<ItemRole(item) \o ": " \o Take(content, MAX_HISTORY_CHARS)>>

RECURSIVE SafeLines(_)
SafeLines(items) ==
    IF Len(items) = 0 THEN <<>> ELSE ItemLines(Head(items)) \o SafeLines(Tail(items))

SanitizeRaises(raw_history) ==
    /\ raw_history.pytype = "list"
    /\ \E i \in 1..Len(LastItems(raw_history.items)) :
           ItemRaises(LastItems(raw_history.items)[i])

SanitizeHistory(raw_history) ==
    IF raw_history.pytype # "list" THEN <<>>
    ELSE SafeLines(LastItems(raw_history.items))

---------------------------------------------------------------------------
(* _fallback_answer *)

FallbackAnswer(tool) ==
    IF ~IsDict(tool) THEN FALLBACK_NO_TOOL
    ELSE LET title == Strip(IF tool.title # "" THEN tool.title ELSE THIS_TOOL_TITLE)
             short == Strip(tool.description)
             detailed == Strip(tool.detailedDescription)
             description == IF short = "" /\ detailed # ""
                            THEN RStrip(Take(detailed, 220)) ELSE short
             path == Strip(tool.path)
             auth_text == IF tool.authRequired THEN AUTH_REQUIRED_TEXT
                          ELSE AUTH_NOT_REQUIRED_TEXT
             offline_text == IF tool.offlineEnabled THEN OFFLINE_ENABLED_TEXT
                             ELSE OFFLINE_DISABLED_TEXT
         IN  Strip(title \o ": " \o description \o " It " \o auth_text \o ", "
                   \o offline_text \o ", and is available at " \o path \o ".")

RECURSIVE WordCount(_)
\* len(answer.split())
WordCount(s) ==
    LET t == LStrip(s)
        RECURSIVE SkipWord(_)
        SkipWord(u) == IF u = "" \/ IsSpace(CharAt(u, 1)) THEN u
                       ELSE SkipWord(SubSeq(u, 2, Len(u)))
    IN  IF t = "" THEN 0 ELSE 1 + WordCount(SkipWord(t))

\* Mutant: any answer that is not empty is kept.
TooShortOnlyEmpty(answer) == answer = ""

\* not answer or len(answer.split()) < 3
TooShort(answer) == answer = "" \/ WordCount(answer) < 3

---------------------------------------------------------------------------
(* _load_tool_metadata: the two metadata files as parsed JSON.  A raw card *)
(* is a catalog entry with its isActive value (True when the key is        *)
(* missing); a category is its id and label.                               *)

RawCard(entry, is_active) == [entry |-> entry, isActive |-> is_active]

Category(id, label) == [pytype |-> "dict", id |-> id, label |-> label]

\* No candidate directory holds both files: _metadata_paths raises.
MetadataNotFound == [found |-> FALSE]

MetadataFiles(raw_cards, categories) ==
    [found |-> TRUE, raw_cards |-> raw_cards, categories |-> categories]

RECURSIVE LoadedCards(_)
\* [card for card in raw_cards if isinstance(card, dict)
\*                              and card.get("isActive", True) is not False]
LoadedCards(raw_cards) ==
    IF Len(raw_cards) = 0 THEN <<>>
    ELSE (IF IsDict(Head(raw_cards).entry) /\ Head(raw_cards).isActive # FALSE
          THEN <<Head(raw_cards).entry>> ELSE <<>>)
         \o LoadedCards(Tail(raw_cards))

\* The dict comprehension over categories: a later item replaces an
\* earlier one with the same key.
LoadedCategoryMap(categories) ==
    LET items == SelectSeq(categories, IsDict)
        keys == {Norm(items[i].id) : i \in 1..Len(items)}
        Last(key) == CHOOSE i \in 1..Len(items) :
                         /\ Norm(items[i].id) = key
                         /\ \A j \in (i + 1)..Len(items) : Norm(items[j].id) # key
    IN  [key \in keys |-> Strip(items[Last(key)].label)]

---------------------------------------------------------------------------
(* Responses. *)

\* An exception as the handlers report it with settings.DEBUG.
Exception(type, text) == [type |-> type, text |-> text]

\* Response({"error": ...}, status=...)
ErrorResponse(code, text) == [status |-> code, body |-> [error |-> text]]

\* The error payload of the two handlers that add the exception in DEBUG.
FailureResponse(code, text, exc) ==
    [status |-> code,
     body |-> IF debug
              THEN [error |-> text, details |-> exc.text, exceptionType |-> exc.type]
              ELSE [error |-> text]]

\* matched_tool.get("id") if isinstance(matched_tool, dict) else None
MatchedToolId(tool) == IF IsDict(tool) THEN PyStr(tool.id) ELSE PyNone

AnswerResponse(answer, tool, model_name) ==
    [status |-> HTTP_200_OK,
     body |-> [answer |-> answer, matchedToolId |-> MatchedToolId(tool),
               model |-> model_name]]

---------------------------------------------------------------------------
(* Requests, configurations and assistant behaviours of the model. *)

HistoryItem(role, content) == PyDict([role |-> role, content |-> content])

Turn(n) == HistoryItem(PyStr("user"), PyStr("turn " \o ToString(n)))

Histories ==
    { PyNone,
      PyStr("not a list"),
      PyList(<< HistoryItem(PyStr(" User "), PyStr(" hi ")),
                PyStr("not an item"),
                HistoryItem(PyStr("system"), PyInt(1)),
                HistoryItem(PyStr("assistant"), PyStr("  ")),
                HistoryItem(PyNone, PyStr("no role")) >>),
      PyList([n \in 1..(MAX_HISTORY_ITEMS + 1) |-> Turn(n)]),
      PyList(<< HistoryItem(PyStr("user"), PyInt(1)) >>) }

Messages ==
    { PyNone, PyStr("  "), PyStr(" What is QR Tool? "), PyStr("asdf qwerty zzz"),
      PyStr("png"), PyInt(7) }

ToolIdValues == { PyNone, PyStr(" QR "), PyInt(5) }

\* request.data: a JSON object with any of the three keys, or any other
\* JSON value.
Requests ==
    { PyDict([message |-> m, currentToolId |-> c, history |-> h]) :
          m \in Messages, c \in ToolIdValues, h \in Histories }
        \cup { PyList(<<>>) }

\* os.environ: a variable is unset (no key) or set to a string.
Environments ==
    { [name \in {} |-> ""],
      [name \in {ENV_OPENAI_API_KEY} |-> "   "],
      [name \in {ENV_OPENAI_API_KEY} |-> " sk-test "],
      [name \in {ENV_OPENAI_API_KEY, ENV_OPENAI_MODEL} |->
          IF name = ENV_OPENAI_API_KEY THEN "sk-test" ELSE " " ],
      [name \in {ENV_OPENAI_API_KEY, ENV_OPENAI_MODEL} |->
          IF name = ENV_OPENAI_API_KEY THEN "sk-test" ELSE " gpt-4o " ] }

Metadata ==
    { MetadataNotFound,
      MetadataFiles(<< RawCard(Pool[3], TRUE), RawCard(Pool[2], TRUE),
                       RawCard(Pool[4], FALSE), RawCard(Pool[1], TRUE),
                       RawCard(Pool[6], TRUE) >>,
                    << Category(" Biz ", " Image Biz "), [pytype |-> "str"],
                       Category("biz", "Business "), Category("", "None") >>) }

\* What the OpenAI client does: it raises, or it returns a response whose
\* output_text is None or a string.
AssistantOutcomes ==
    { [raises |-> TRUE, exc |-> Exception("APIConnectionError", "Connection error.")],
      [raises |-> FALSE, output_text |-> PyNone],
      [raises |-> FALSE, output_text |-> PyStr("  ")],
      [raises |-> FALSE, output_text |-> PyStr(" Sure thing. ")],
      [raises |-> FALSE, output_text |-> PyStr(" QR Tool makes codes. ")] }

---------------------------------------------------------------------------
(* tool_chat_view, step by step.  `effects` lists what the handler has     *)
(* done outside its own locals: reading the environment, importing the     *)
(* SDK, reading the metadata files, calling the assistant.                 *)

\* _build_context has not been called.
ContextIdle ==
    /\ cards = <<>>
    /\ category_map = [key \in {} |-> ""]
    /\ query = ""
    /\ current_tool_id = ""
    /\ pc = "idle"
    /\ explicit_ids = {}
    /\ scored = <<>>
    /\ best_score = 0
    /\ best_tool = NoneTool
    /\ top_tools = <<>>
    /\ branch = ""
    /\ related = <<>>
    /\ selected = <<>>
    /\ context_text = ""
    /\ matched_tool = NoneTool

ChatInit ==
    /\ request_data \in Requests
    /\ environ \in Environments
    /\ sdk_installed \in BOOLEAN
    /\ metadata_files \in Metadata
    /\ debug \in BOOLEAN
    /\ AuthIdle
    /\ ShareIdle
    /\ SendIdle
    /\ stage = "received"
    /\ message = ""
    /\ api_key = ""
    /\ model = ""
    /\ history = <<>>
    /\ user_prompt = ""
    /\ completion = PyNone
    /\ effects = <<>>
    /\ response = PyNone
    /\ ContextIdle

configuration == <<request_data, environ, sdk_installed, metadata_files, debug>>

chat_locals == <<message, api_key, model, history, user_prompt, completion,
                 effects, response>>

context_state == <<pc, explicit_ids, scored, best_score, best_tool, top_tools,
                   branch, related, selected, context_text, matched_tool>>

\* return Response(...)
Respond(r) == stage' = "responded" /\ response' = r

\* payload, message, current_tool_id and history (None is "" in
\* current_tool_id).  A value that is neither empty nor a string has no
\* .strip(): AttributeError leaves the view.
ReadPayload ==
    /\ stage = "received"
    /\ LET payload == IF IsDict(request_data) THEN request_data
                      ELSE PyDict([k \in {} |-> PyNone])
           raw_message == OrEmpty(Get(payload, "message"))
           raw_tool_id == OrEmpty(Get(payload, "currentToolId"))
           raw_history == Get(payload, "history")
       IN  IF \/ ~HasStrip(raw_message)
              \/ ~HasStrip(raw_tool_id)
              \/ SanitizeRaises(raw_history)
           THEN /\ stage' = "raised"
                /\ UNCHANGED <<message, current_tool_id, history>>
           ELSE /\ stage' = "parsed"
                /\ message' = Strip(raw_message.value)
                /\ current_tool_id' = Norm(raw_tool_id.value)
                /\ history' = SanitizeHistory(raw_history)
    /\ UNCHANGED <<configuration, api_key, model, user_prompt, completion, effects,
                   response, cards, category_map, query, context_state>>
    /\ UNCHANGED beyond_chat

\* if not message: 400
RequireMessage ==
    /\ stage = "parsed"
    /\ IF message = ""
       THEN Respond(ErrorResponse(HTTP_400_BAD_REQUEST, ERROR_MESSAGE_REQUIRED))
       ELSE stage' = "accepted" /\ UNCHANGED response
    /\ UNCHANGED <<configuration, message, api_key, model, history, user_prompt,
                   completion, effects, context_vars>>
    /\ UNCHANGED beyond_chat

\* api_key, model; if not api_key: 503
RequireApiKey ==
    /\ stage = "accepted"
    /\ LET key == Strip(MapGet(environ, ENV_OPENAI_API_KEY, ""))
           name == Strip(MapGet(environ, ENV_OPENAI_MODEL, DEFAULT_OPENAI_MODEL))
       IN  /\ api_key' = key
           /\ model' = IF name # "" THEN name ELSE DEFAULT_OPENAI_MODEL
           /\ IF key = ""
              THEN Respond(ErrorResponse(HTTP_503_SERVICE_UNAVAILABLE,
                                         ERROR_CHAT_NOT_CONFIGURED))
              ELSE stage' = "configured" /\ UNCHANGED response
    /\ effects' = Append(effects, "getenv")
    /\ UNCHANGED <<configuration, message, history, user_prompt, completion,
                   context_vars>>
    /\ UNCHANGED beyond_chat

\* from openai import OpenAI; except: 503
ImportOpenAI ==
    /\ stage = "configured"
    /\ IF sdk_installed
       THEN stage' = "imported" /\ UNCHANGED response
       ELSE Respond(ErrorResponse(HTTP_503_SERVICE_UNAVAILABLE, ERROR_OPENAI_SDK_MISSING))
    /\ effects' = Append(effects, "import openai")
    /\ UNCHANGED <<configuration, message, api_key, model, history, user_prompt,
                   completion, context_vars>>
    /\ UNCHANGED beyond_chat

\* cards, category_map = _load_tool_metadata(); except: 500
LoadToolMetadata ==
    /\ stage = "imported"
    /\ IF metadata_files.found
       THEN /\ cards' = LoadedCards(metadata_files.raw_cards)
            /\ category_map' = LoadedCategoryMap(metadata_files.categories)
            /\ stage' = "loaded"
            /\ UNCHANGED response
       ELSE /\ Respond(FailureResponse(HTTP_500_INTERNAL_SERVER_ERROR,
                           ERROR_TOOL_METADATA_UNAVAILABLE,
                           Exception("FileNotFoundError",
                                     "Could not locate tool metadata files.")))
            /\ UNCHANGED <<cards, category_map>>
    /\ effects' = Append(effects, "read metadata")
    /\ UNCHANGED <<configuration, message, api_key, model, history, user_prompt,
                   completion, query, current_tool_id, context_state>>
    /\ UNCHANGED beyond_chat

\* The call _build_context(cards=cards, category_map=category_map,
\* query=message, current_tool_id=current_tool_id); its steps are the
\* actions of _build_context above.
CallBuildContext ==
    /\ stage = "loaded"
    /\ query' = message
    /\ pc' = "start"
    /\ stage' = "context"
    /\ UNCHANGED <<configuration, chat_locals, cards, category_map, current_tool_id,
                   explicit_ids, scored, best_score, best_tool, top_tools,
                   branch, related, selected, context_text, matched_tool>>
    /\ UNCHANGED beyond_chat

\* USER_PROMPT_TEMPLATE.format(...)
UserPrompt(msg, tool_id, lines, context) ==
    "User question:\n" \o msg \o "\n\n"
    \o "Current tool id (if any): "
    \o (IF tool_id # "" THEN tool_id ELSE NONE_TOOL_ID_TEXT) \o "\n\n"
    \o "Recent chat history:\n"
    \o (IF Len(lines) > 0 THEN JoinWith("\n", lines) ELSE NO_HISTORY_TEXT) \o "\n\n"
    \o "Relevant tool metadata:\n" \o context

\* The prompt, the call of the assistant in its try block, and the return:
\* 502 when the call raises, else the answer, replaced by the fallback when
\* it is too short.
AskAssistant ==
    /\ stage = "context"
    /\ pc = "done"
    /\ user_prompt' = UserPrompt(message, current_tool_id, history, context_text)
    /\ effects' = Append(effects, "responses.create")
    /\ \E outcome \in AssistantOutcomes :
           /\ completion' = outcome
           /\ IF outcome.raises
              THEN Respond(FailureResponse(HTTP_502_BAD_GATEWAY,
                               ERROR_ASSISTANT_REQUEST_FAILED, outcome.exc))
              ELSE LET answer == Strip(OrEmpty(outcome.output_text).value)
                   IN  Respond(AnswerResponse(
                           IF TooShort(answer) THEN FallbackAnswer(matched_tool)
                           ELSE answer,
                           matched_tool, model))
    /\ UNCHANGED <<configuration, message, api_key, model, history, context_vars>>
    /\ UNCHANGED beyond_chat

ChatNext ==
    \/ ReadPayload
    \/ RequireMessage
    \/ RequireApiKey
    \/ ImportOpenAI
    \/ LoadToolMetadata
    \/ CallBuildContext
    \/ Explicit
    \/ ScoreAndSort
    \/ SelectList
    \/ SelectBest
    \/ SelectTop
    \/ SelectDefault
    \/ Render
    \/ AskAssistant

ChatSpec == ChatInit /\ [][ChatNext]_vars

---------------------------------------------------------------------------
(* Vocabulary of the properties. *)

\* The scores of the valid cards, in catalog order, once the explicit ids
\* are known.
CatalogScores == ScorePairs(cards, query, current_tool_id, explicit_ids)

\* pairs[j] is ranked ahead of pairs[i]: a higher score, or the same score
\* and an earlier place in the catalog.
Ahead(pairs, j, i) ==
    \/ pairs[j][1] > pairs[i][1]
    \/ (pairs[j][1] = pairs[i][1] /\ j < i)

RankIn(pairs, i) == 1 + Cardinality({j \in 1..Len(pairs) : Ahead(pairs, j, i)})

\* The pair ranked k-th.
RankedAt(pairs, k) == pairs[CHOOSE i \in 1..Len(pairs) : RankIn(pairs, i) = k]

\* The tools of the n highest-ranked pairs with a score > 0, best first.
TopPositive(pairs, n) ==
    LET m == Cardinality({k \in 1..Len(pairs) : k <= n /\ RankedAt(pairs, k)[1] > 0})
    IN  [k \in 1..m |-> RankedAt(pairs, k)[2]]

AnyPositive(pairs) == \E i \in 1..Len(pairs) : pairs[i][1] > 0

SingleToolIntent == ~IsMultiToolRequest(query)

HasAllTools == Contains(Lower(query), "all tools")

---------------------------------------------------------------------------
(* C1: with single-tool intent the selection is the top-scoring card alone *)
(* when its score is >= 2; otherwise the cards with score > 0 among the    *)
(* three highest-ranked, best first, when some card scored > 0; otherwise  *)
(* the first 3 cards of the catalog.                                       *)
C1_SingleToolSelection ==
    (pc = "render" /\ SingleToolIntent) =>
        LET pairs == CatalogScores
        IN  IF Len(pairs) > 0 /\ RankedAt(pairs, 1)[1] >= 20
            THEN selected = <<RankedAt(pairs, 1)[2]>>
            ELSE IF AnyPositive(pairs)
                 THEN selected = TopPositive(pairs, 3)
                 ELSE selected = Take(cards, 3)

\* The top-3 branch was taken on a catalog with more than three matching
\* cards, none of them reaching 2.
C1_Witness ==
    /\ pc = "render" /\ SingleToolIntent
    /\ Len(selected) = 3
    /\ best_score > 0 /\ best_score < 20
    /\ Cardinality({i \in 1..Len(scored) : scored[i][1] > 0}) > 3

(* C2: a query holding "all tools" selects every valid card, in catalog    *)
(* order, whatever the scores, the explicit mentions and the current tool. *)
C2_AllToolsBypass ==
    (pc = "render" /\ HasAllTools) =>
        /\ selected = SelectSeq(cards, IsDict)
        /\ Len(selected) = Cardinality({i \in 1..Len(cards) : IsDict(cards[i])})

\* The bypass acted on a catalog of six valid cards with an explicit mention,
\* a current tool and cards that scored nothing.
C2_Witness ==
    /\ pc = "render" /\ HasAllTools
    /\ Len(selected) = 6
    /\ explicit_ids # {}
    /\ current_tool_id # ""
    /\ \E i \in 1..Len(scored) : scored[i][1] = 0

---------------------------------------------------------------------------
(* List selection. *)

ListIntent == IsMultiToolRequest(query)

\* The query asks for the offline list, which is answered ahead of the
\* related filter.
OfflineIntent == IsOfflineListRequest(query)

\* signalTokens(query) minus the list-intent vocabulary
ClaimFocusTokens ==
    {t \in SeqToSet(QuerySignalTokens(Lower(query))) : t \notin LIST_INTENT_TOKENS}

\* The parts of a card's searchable string.
SearchableParts(tool) ==
    LET cat == Lower(Strip(tool.categoryId))
    IN  {Lower(Strip(tool.id)), Lower(Strip(tool.title)), Lower(Strip(tool.description)),
         Lower(Strip(tool.path)), cat,
         IF cat \in DOMAIN category_map THEN Lower(Strip(category_map[cat])) ELSE ""}

\* The inclusion rule of the filter, for a card and its score.
ShouldBeRelated(pair) ==
    /\ pair[1] > 0
    /\ \/ Lower(Strip(pair[2].id)) \in explicit_ids
       \/ /\ ClaimFocusTokens # {}
          /\ \E t \in ClaimFocusTokens : \E part \in SearchableParts(pair[2]) : Contains(part, t)

\* The tools of the pairs satisfying Keep, best first.
RankedWhere(pairs, Keep(_)) ==
    LET kept == {k \in 1..Len(pairs) : Keep(RankedAt(pairs, k))}
        Place(k) == Cardinality({j \in kept : j <= k})
    IN  [n \in 1..Cardinality(kept) |-> RankedAt(pairs, CHOOSE k \in kept : Place(k) = n)[2]]

ListOutcome(pairs) ==
    IF \E i \in 1..Len(pairs) : ShouldBeRelated(pairs[i])
    THEN selected = RankedWhere(pairs, ShouldBeRelated)
    ELSE IF AnyPositive(pairs)
         THEN selected = TopPositive(pairs, 5)
         ELSE selected = Take(SelectSeq(cards, IsDict), 5)

(* C4 as stated: for every list query without "all tools" the selection    *)
(* is the related set when it is not empty, else the top 5 cards with      *)
(* score > 0, else the first 5 cards of the catalog.                       *)
C4_Original ==
    (pc = "render" /\ ListIntent /\ ~HasAllTools) => ListOutcome(CatalogScores)

(* C4, amended: for every list query without "all tools" that is not an    *)
(* offline list request, the selection is the related set, best first,     *)
(* when it is not empty, else the top 5 cards with score > 0, else the     *)
(* first 5 cards of the catalog.                                           *)
C4_ListFallbacks ==
    (pc = "render" /\ ListIntent /\ ~HasAllTools /\ ~OfflineIntent) =>
        ListOutcome(CatalogScores)

\* Each fallback cut a longer list down to five: six cards scored > 0 and
\* none was related, or six valid cards scored nothing.
C4_Witness ==
    /\ pc = "render" /\ ListIntent /\ ~HasAllTools /\ ~OfflineIntent
    /\ Len(related) = 0
    /\ Len(selected) = 5
    /\ Len(scored) = 6
    /\ scored[6][1] > 0

(* C5: the matched tool returned is the top-scoring card when that card    *)
(* scored > 0 and none otherwise, whichever branch made the selection.     *)
C5_BestMatchedTool ==
    (pc = "done") =>
        LET pairs == CatalogScores
        IN  IF Len(pairs) > 0 /\ RankedAt(pairs, 1)[1] > 0
            THEN matched_tool = RankedAt(pairs, 1)[2]
            ELSE matched_tool = NoneTool

\* A list selection that leaves the matched tool out: the best card is
\* reported all the same.
C5_Witness ==
    /\ pc = "done"
    /\ branch = "list"
    /\ matched_tool # NoneTool
    /\ \A k \in 1..Len(selected) : selected[k] # matched_tool

---------------------------------------------------------------------------
(* Scoring. *)

\* How many occurrences of a token satisfy P.
CountTokens(tokens, P(_)) == Cardinality({n \in 1..Len(tokens) : P(tokens[n])})

\* The condition of the current-page bias for the card with this id.
BiasCondition(card_id) ==
    LET cur == Lower(Strip(current_tool_id))
    IN  /\ cur # ""
        /\ cur = card_id
        /\ (explicit_ids = {} \/ cur \in explicit_ids)

\* The sum the scoring formula prescribes for a card, in tenths.
PrescribedScore(tool) ==
    LET q == Lower(query)
        tokens == QuerySignalTokens(query)
        id == Lower(Strip(tool.id))
        title == Lower(Strip(tool.title))
        description == Lower(Strip(tool.description))
        detailed == Lower(Strip(tool.detailedDescription))
        path == Lower(Strip(tool.path))
        all_five == id \o " " \o title \o " " \o description \o " " \o detailed \o " " \o path
        InId(t) == Contains(id, t)
        InTitle(t) == Contains(title, t)
        InDescription(t) == Contains(description, t)
        InDetailed(t) == Contains(detailed, t)
        InAllFive(t) == Contains(all_five, t)
    IN    (IF id \in explicit_ids THEN 100 ELSE 0)
        + (IF BiasCondition(id) THEN 30 ELSE 0)
        + (IF id # "" /\ Contains(q, id) THEN 60 ELSE 0)
        + (IF title # "" /\ Contains(q, title) THEN 50 ELSE 0)
        + (IF path # "" /\ Contains(q, path) THEN 40 ELSE 0)
        + 20 * CountTokens(tokens, InId)
        + 18 * CountTokens(tokens, InTitle)
        + 13 * CountTokens(tokens, InDescription)
        + 10 * CountTokens(tokens, InDetailed)
        + 4 * CountTokens(tokens, InAllFive)

(* C6: the score of every card is exactly the sum of +10 for an explicit   *)
(* id, +3 for the current-page bias, +6 / +5 / +4 for the non-empty id /   *)
(* title / path found in the lower-cased query and, once per occurrence of *)
(* a signal token, +2 / +1.8 / +1.3 / +1.0 / +0.4 for the id, the title,   *)
(* the description, the detailed description and the five fields joined.   *)
C6_ScoringFormula ==
    (pc = "select") =>
        \A i \in 1..Len(scored) : scored[i][1] = PrescribedScore(scored[i][2])

\* A card scored with stacked terms: explicit, bias, literal id and a token
\* that occurs twice in the query.
C6_Witness ==
    /\ pc = "select"
    /\ query = "qr qr"
    /\ \E i \in 1..Len(scored) : scored[i][1] > 100 + 30 + 60 + 2 * 20

(* C7: a card gets the +3 bias iff the current-tool id is not empty, is    *)
(* the card's id, and the explicit set is empty or holds the current-tool  *)
(* id; the current page gets none when only another tool is mentioned.     *)
C7_CurrentPageBias ==
    (pc = "select") =>
        \A i \in 1..Len(scored) :
            LET tool == scored[i][2]
                without == ScoreTool(tool, query, "", explicit_ids)
            IN  /\ scored[i][1] - without \in {0, 30}
                /\ (scored[i][1] - without = 30) <=> BiasCondition(Lower(Strip(tool.id)))

\* The current page is in the catalog, the query names another tool only,
\* and the current page's card got no bias.
C7_Witness ==
    /\ pc = "select"
    /\ Lower(Strip(current_tool_id)) = "qr"
    /\ explicit_ids # {} /\ "qr" \notin explicit_ids
    /\ \E i \in 1..Len(scored) :
           /\ Lower(Strip(scored[i][2].id)) = "qr"
           /\ scored[i][1] = ScoreTool(scored[i][2], query, "", explicit_ids)

---------------------------------------------------------------------------
(* Explicit mentions and intent. *)

\* The card's id, path or title is found in the lower-cased query.
NamedInQuery(tool) ==
    LET q == Lower(query)
        id == Lower(tool.id)
        path == Lower(tool.path)
        title == Lower(tool.title)
        In(x) == Strip(x) # "" /\ Contains(q, Strip(x))
    IN  Strip(id) # "" /\ (In(title) \/ In(path) \/ In(id))

(* C8: a card's lower-cased id is an explicit id iff the id is not empty   *)
(* and the id, the non-empty path or the non-empty title is a substring of *)
(* the lower-cased query; a card with an empty id contributes nothing.     *)
C8_ExplicitMentions ==
    (pc = "score") =>
        /\ \A i \in 1..Len(cards) :
               IsDict(cards[i]) =>
                   (Lower(Strip(cards[i].id)) \in explicit_ids <=> NamedInQuery(cards[i]))
        /\ \A id \in explicit_ids :
               /\ id # ""
               /\ \E i \in 1..Len(cards) : IsDict(cards[i]) /\ Lower(Strip(cards[i].id)) = id

\* A card is mentioned by its title only, in a catalog that also holds a
\* card without id.
C8_Witness ==
    /\ pc = "score"
    /\ query = "PDF Merge"
    /\ explicit_ids = {"pdf-merge"}
    /\ \E i \in 1..Len(cards) : IsDict(cards[i]) /\ cards[i].title = "Notes"

\* The classification rule, read on the lower-cased query.
ListIntentRule ==
    LET q == Lower(query)
        words == SeqToSet(Tokens(query))
    IN  \/ \E phrase \in {"all tools", "list tools", "list of tools", "names of tools",
                          "which tools", "what tools", "what are the tools"} :
               Contains(q, phrase)
        \/ /\ ("tool" \in words \/ "tools" \in words)
           /\ \E w \in words : w \in {"all", "category", "categories", "list", "name",
                                      "names", "related", "tool", "tools"}

(* C9: a query is routed to the list selection exactly when it holds one   *)
(* of the fixed phrases, or its tokens hold "tool" or "tools" and a        *)
(* list-intent token: "what are the tools" is, "how do I resize an image"  *)
(* is not.                                                                 *)
C9_IntentClassification ==
    (pc = "render") =>
        /\ (branch = "list") <=> ListIntentRule
        /\ query = "what are the tools" => branch = "list"
        /\ query = "how do I resize an image" => branch # "list"

\* The single-tool example was classified and answered with one card.
C9_Witness ==
    /\ pc = "render"
    /\ query = "how do I resize an image"
    /\ branch = "best"
    /\ Len(selected) = 1

(* C10: a card whose non-empty id occurs in the query has its id in the    *)
(* explicit set and a score of at least 10.                                *)
C10_ExplicitDominance ==
    (pc = "select") =>
        \A i \in 1..Len(scored) :
            LET id == Lower(Strip(scored[i][2].id))
            IN  (id # "" /\ Contains(Lower(query), id)) =>
                    (id \in explicit_ids /\ scored[i][1] >= 100)

\* A card named by its id in a query none of whose tokens it shares with
\* the other terms, next to a card that is not named.
C10_Witness ==
    /\ pc = "select"
    /\ \E i, j \in 1..Len(scored) :
           /\ Contains(Lower(query), Lower(Strip(scored[i][2].id)))
           /\ scored[i][2].id # ""
           /\ scored[i][1] >= 100
           /\ scored[j][1] < 100

---------------------------------------------------------------------------
(* Queries without signal. *)

\* The query has words, and each is a stop-word or a single character.
StopWordsOnly ==
    /\ Len(Tokens(query)) > 0
    /\ \A n \in 1..Len(Tokens(query)) :
           \/ Tokens(query)[n] \in QUERY_STOP_TOKENS
           \/ Len(Tokens(query)[n]) = 1

\* The card's non-empty id, title or path is a literal substring of the
\* lower-cased query.
LiteralInQuery(tool) ==
    LET q == Lower(query)
        In(x) == Lower(Strip(x)) # "" /\ Contains(q, Lower(Strip(x)))
    IN  In(tool.id) \/ In(tool.title) \/ In(tool.path)

\* The card is the page the user is on.
IsCurrentPage(tool) ==
    /\ Lower(Strip(current_tool_id)) # ""
    /\ Lower(Strip(tool.id)) = Lower(Strip(current_tool_id))

(* C11 as stated: for a query made only of stop-words or one-character     *)
(* tokens there is no signal token, and every card scores 0 unless its     *)
(* id, title or path is a literal substring of the query.                  *)
C11_Original ==
    (pc = "select" /\ StopWordsOnly) =>
        /\ QuerySignalTokens(query) = <<>>
        /\ \A i \in 1..Len(scored) :
               scored[i][1] = 0 \/ LiteralInQuery(scored[i][2])

(* C11, amended: for a query made only of stop-words or one-character      *)
(* tokens there is no signal token, and every card scores 0 unless its     *)
(* id, title or path is a literal substring of the query or its id is the  *)
(* current-tool id.                                                        *)
C11_StopWordNeutrality ==
    (pc = "select" /\ StopWordsOnly) =>
        /\ QuerySignalTokens(query) = <<>>
        /\ \A i \in 1..Len(scored) :
               \/ scored[i][1] = 0
               \/ LiteralInQuery(scored[i][2])
               \/ IsCurrentPage(scored[i][2])

\* A stop-word query scored a catalog with the current page in it: that
\* card alone has a score.
C11_Witness ==
    /\ pc = "select"
    /\ query = "what is the for"
    /\ Len(scored) > 1
    /\ scored[1][1] = 30 /\ IsCurrentPage(scored[1][2])
    /\ \A i \in 2..Len(scored) : scored[i][1] = 0

---------------------------------------------------------------------------
(* Malformed catalogs. *)

(* C12: for every catalog, with entries that are not dicts, and every      *)
(* query and current-tool id, _build_context returns without raising, and  *)
(* what it rendered holds no entry that is not a dict, whichever branch    *)
(* made the selection.                                                     *)
C12_Totality ==
    /\ pc # "raised"
    /\ (pc = "done") => \A k \in 1..Len(selected) : IsDict(selected[k])

---------------------------------------------------------------------------
(* Queries that say nothing. *)

\* The query is empty or whitespace only.
BlankQuery == \A n \in 1..Len(query) : CharAt(query, n) \in {" ", "\t", "\n"}

\* The catalog holds the card of the page the user is on.
CurrentPageInCatalog ==
    \E i \in 1..Len(cards) : IsDict(cards[i]) /\ IsCurrentPage(cards[i])

\* The selection is the card of the current page, alone.
CurrentPageAlone ==
    /\ Len(selected) = 1
    /\ IsDict(selected[1])
    /\ IsCurrentPage(selected[1])

(* C13 as stated: for a blank query, every catalog and every current-tool  *)
(* id, the explicit-id set is empty, the query is not taken for a list     *)
(* request, and the selection is the first 3 entries of the catalog.       *)
C13_Original ==
    (pc = "render" /\ BlankQuery) =>
        /\ explicit_ids = {}
        /\ branch # "list"
        /\ selected = Take(cards, 3)

(* C13, amended: for a blank query and every catalog the explicit-id set   *)
(* is empty and the query is not taken for a list request; the selection   *)
(* is the first 3 entries of the catalog, unless the current-tool id is    *)
(* the id of a catalog card, which is then selected alone.                 *)
C13_EmptyQueryDefaults ==
    (pc = "render" /\ BlankQuery) =>
        /\ explicit_ids = {}
        /\ branch # "list"
        /\ IF CurrentPageInCatalog
           THEN CurrentPageAlone
           ELSE selected = Take(cards, 3)

\* A whitespace query on a catalog of more than three entries, sent from a
\* page that is not in the catalog: three entries were selected.
C13_Witness ==
    /\ pc = "render"
    /\ query = "  "
    /\ current_tool_id # ""
    /\ ~CurrentPageInCatalog
    /\ Len(cards) > 3
    /\ Len(selected) = 3

---------------------------------------------------------------------------
(* Rendering. *)

\* The card's category id as the renderer looks it up.
CategoryKey(tool) == Lower(Strip(tool.categoryId))

MissingCategory(tool) == CategoryKey(tool) \notin DOMAIN category_map

\* The header line of a card's block, for a given category label.
HeaderLine(tool, label) ==
    "- " \o (IF tool.title = "" THEN "Unknown tool" ELSE tool.title)
    \o " (id: " \o tool.id \o ", category: " \o label \o ", path: " \o tool.path \o ")\n"

(* C14 as stated: every selected card whose categoryId is absent from the  *)
(* category map is rendered with the category label "Unknown".             *)
C14_Original ==
    (pc = "done") =>
        \A k \in 1..Len(selected) :
            MissingCategory(selected[k]) =>
                Contains(context_text, HeaderLine(selected[k], "Unknown"))

(* C14, amended: every selected card whose categoryId is absent from the   *)
(* category map is rendered with its stripped, lower-cased category id as  *)
(* the label, and with "Unknown" when that id is empty; a missing          *)
(* category never makes the rendering fail.                                *)
C14_CategoryFallback ==
    /\ (pc = "done") =>
           \A k \in 1..Len(selected) :
               MissingCategory(selected[k]) =>
                   Contains(context_text,
                            HeaderLine(selected[k],
                                       IF CategoryKey(selected[k]) = ""
                                       THEN "Unknown"
                                       ELSE CategoryKey(selected[k])))
    /\ (pc = "raised") => \E k \in 1..Len(selected) : ~IsDict(selected[k])

\* Rendered with an empty map: one card under "Unknown", one under its own
\* category id, which the card spells differently.
C14_Witness ==
    /\ pc = "done"
    /\ DOMAIN category_map = {}
    /\ \E k \in 1..Len(selected) : selected[k].categoryId = ""
    /\ \E k \in 1..Len(selected) :
           /\ CategoryKey(selected[k]) # ""
           /\ CategoryKey(selected[k]) # selected[k].categoryId

\* "yes" or "no"
YesNo(flag) == IF flag THEN "yes" ELSE "no"

\* The four lines of a card's block, for a given category label.
BlockLines(tool, label) ==
    << "- " \o (IF tool.title = "" THEN "Unknown tool" ELSE tool.title)
            \o " (id: " \o tool.id \o ", category: " \o label
            \o ", path: " \o tool.path \o ")",
       "  Short: " \o tool.description,
       "  Details: " \o tool.detailedDescription,
       "  Offline: " \o YesNo(tool.offlineEnabled)
            \o ", Auth required: " \o YesNo(tool.authRequired) >>

RECURSIVE AllLines(_, _)
\* The lines of the blocks of the cards, in order; labels[k] is the
\* category label of the k-th card.
AllLines(sel, labels) ==
    IF Len(sel) = 0 THEN <<>>
    ELSE BlockLines(Head(sel), Head(labels)) \o AllLines(Tail(sel), Tail(labels))

\* The label as stated: the map's label for the lower-cased category id,
\* else the category id as the card spells it, else "Unknown".
LabelRawFallback(tool) ==
    IF Lower(tool.categoryId) \in DOMAIN category_map
    THEN category_map[Lower(tool.categoryId)]
    ELSE IF tool.categoryId # "" THEN tool.categoryId ELSE "Unknown"

\* The label with the category id stripped and lower-cased, for the lookup
\* and for the fallback.
LabelKeyFallback(tool) ==
    IF CategoryKey(tool) \in DOMAIN category_map
    THEN category_map[CategoryKey(tool)]
    ELSE IF CategoryKey(tool) # "" THEN CategoryKey(tool) ELSE "Unknown"

(* C15 as stated: the context text is one block per selected card, in      *)
(* selection order, joined by newlines; the category label of a block is   *)
(* the map's label for the lower-cased categoryId, else the raw category   *)
(* id, else "Unknown" when the id is empty, and the Offline / Auth         *)
(* required fields are the yes/no of the card's flags.                     *)
C15_Original ==
    (pc = "done") =>
        context_text = JoinWith("\n", AllLines(selected,
            [k \in 1..Len(selected) |-> LabelRawFallback(selected[k])]))

(* C15, amended: the context text is one block per selected card, in       *)
(* selection order, joined by newlines; the category label of a block is   *)
(* the map's label for the stripped, lower-cased categoryId, else that     *)
(* stripped, lower-cased id, else "Unknown" when it is empty, and the      *)
(* Offline / Auth required fields are the yes/no of the card's flags.      *)
C15_ContextRendering ==
    (pc = "done") =>
        context_text = JoinWith("\n", AllLines(selected,
            [k \in 1..Len(selected) |-> LabelKeyFallback(selected[k])]))

\* Several cards rendered, with a label from the map, a fallback to the
\* category id, an "Unknown", and both values of both flags.
C15_Witness ==
    /\ pc = "done"
    /\ Len(selected) >= 4
    /\ \E k \in 1..Len(selected) : ~MissingCategory(selected[k])
    /\ \E k \in 1..Len(selected) :
           MissingCategory(selected[k]) /\ CategoryKey(selected[k]) # ""
    /\ \E k \in 1..Len(selected) : CategoryKey(selected[k]) = ""
    /\ \E j, k \in 1..Len(selected) :
           selected[j].offlineEnabled /\ ~selected[k].offlineEnabled
    /\ \E j, k \in 1..Len(selected) :
           selected[j].authRequired /\ ~selected[k].authRequired

---------------------------------------------------------------------------
(* Lists about a topic. *)

\* The query of test_list_query_includes_all_related_tools, on its catalog.
RelatedToImageTest ==
    /\ query = "what are the names of tools related to image"
    /\ Len(cards) = 4
    /\ {cards[i].id : i \in 1..4} =
           {"image-compressor", "image-crop-tool", "invoice-generator", "text-to-qr"}

\* A list query that names a topic and is answered by the related filter.
TopicListQuery ==
    /\ ListIntent /\ ~HasAllTools /\ ~OfflineIntent
    /\ ClaimFocusTokens # {}

\* The card's searchable text contains the topic.
HasTopic(tool) ==
    \E t \in ClaimFocusTokens : \E part \in SearchableParts(tool) : Contains(part, t)

IsSelected(tool) == \E k \in 1..Len(selected) : selected[k] = tool

\* The selection of the test: the two image cards and no other.
ImageCardsSelected ==
    {selected[k].id : k \in 1..Len(selected)} = {"image-compressor", "image-crop-tool"}

(* C16 as stated: a list query naming a topic selects every card whose     *)
(* searchable text contains the topic and no card whose searchable text    *)
(* lacks it; the query "what are the names of tools related to image" on   *)
(* the catalog of the test selects the two image cards and no other.       *)
C16_Original ==
    (pc = "render" /\ TopicListQuery) =>
        /\ \A i \in 1..Len(cards) :
               IsDict(cards[i]) => (IsSelected(cards[i]) <=> HasTopic(cards[i]))
        /\ RelatedToImageTest => ImageCardsSelected

(* C16, amended: when some card with score > 0 has the topic in its        *)
(* searchable text, a list query naming a topic selects every such card    *)
(* and no card whose searchable text lacks the topic, even one that scored *)
(* > 0 through its detailed description, unless the query names that card  *)
(* by id, title or path; the query "what are the names of tools related    *)
(* to image" on the catalog of the test selects the two image cards and    *)
(* no other.                                                               *)
C16_RelatedToolsList ==
    (pc = "render" /\ TopicListQuery) =>
        LET pairs == CatalogScores
            OnTopic(pair) == pair[1] > 0 /\ HasTopic(pair[2])
        IN  /\ (\E i \in 1..Len(pairs) : OnTopic(pairs[i])) =>
                   /\ \A i \in 1..Len(pairs) : OnTopic(pairs[i]) => IsSelected(pairs[i][2])
                   /\ \A k \in 1..Len(selected) :
                          \/ HasTopic(selected[k])
                          \/ Lower(Strip(selected[k].id)) \in explicit_ids
            /\ RelatedToImageTest => ImageCardsSelected

\* The test's query on the test's catalog: two cards selected, and a card
\* that scored > 0 through its detailed description left out.
C16_Witness ==
    /\ pc = "render" /\ TopicListQuery /\ RelatedToImageTest
    /\ Len(selected) = 2
    /\ \E i \in 1..Len(scored) :
           /\ scored[i][2].id = "text-to-qr"
           /\ scored[i][1] > 0
           /\ ~IsSelected(scored[i][2])

---------------------------------------------------------------------------
(* Queries that match nothing. *)

\* The text fields of a card.
FieldsOf(tool) ==
    {tool.id, tool.title, tool.description, tool.detailedDescription, tool.path,
     tool.categoryId}

\* The query has words, none of them occurs in a field of a card, and no
\* card's id, title or path occurs in the query.
NoSignal ==
    /\ Len(Tokens(query)) > 0
    /\ \A i \in 1..Len(cards) :
           IsDict(cards[i]) =>
               /\ ~LiteralInQuery(cards[i])
               /\ \A n \in 1..Len(Tokens(query)) : \A f \in FieldsOf(cards[i]) :
                      ~Contains(Lower(f), Tokens(query)[n])

\* A single-tool query that matches nothing was put to a non-empty catalog
\* and the selection is made.
NoSignalAnswered ==
    /\ pc \in {"render", "done"}
    /\ SingleToolIntent
    /\ Len(cards) > 0
    /\ NoSignal

(* C17 as stated: for a single-tool query that matches nothing, on every   *)
(* non-empty catalog and for every current-tool id, the selection is the   *)
(* first 3 entries of the catalog and the matched tool returned is none.   *)
C17_Original ==
    NoSignalAnswered =>
        /\ selected = Take(cards, 3)
        /\ (pc = "done") => matched_tool = NoneTool

(* C17, amended: for a single-tool query that matches nothing, on every    *)
(* non-empty catalog, the selection is the first 3 entries of the catalog  *)
(* and the matched tool returned is none, unless the current-tool id is    *)
(* the id of a catalog card: that card is then the selection and the       *)
(* matched tool.                                                           *)
C17_NoSignalFallback ==
    NoSignalAnswered =>
        IF CurrentPageInCatalog
        THEN /\ CurrentPageAlone
             /\ (pc = "done") => matched_tool = selected[1]
        ELSE /\ selected = Take(cards, 3)
             /\ (pc = "done") => matched_tool = NoneTool

\* "asdf qwerty zzz" was answered from a catalog of more than three cards,
\* sent from a page that is not in the catalog.
C17_Witness ==
    /\ pc = "done"
    /\ query = "asdf qwerty zzz"
    /\ current_tool_id # ""
    /\ ~CurrentPageInCatalog
    /\ Len(cards) > 3
    /\ Len(selected) = 3
    /\ matched_tool = NoneTool

---------------------------------------------------------------------------
(* Ranking. *)

\* The place of a card in the catalog.
PlaceOf(tool) == CHOOSE p \in 1..Len(cards) : cards[p] = tool

\* The valid cards of the catalog.
ValidCardSet == {cards[p] : p \in {x \in 1..Len(cards) : IsDict(cards[x])}}

(* C19: the scored candidates are the valid cards in non-increasing order  *)
(* of score, two cards of equal score keeping their catalog order; the     *)
(* top-scoring card, and with it the matched tool and the card selected    *)
(* alone, is the first card of the catalog among those with the highest    *)
(* score.                                                                  *)
C19_RankingOrder ==
    (pc \in {"select", "render", "done"}) =>
        /\ Len(scored) = Cardinality(ValidCardSet)
        /\ {scored[k][2] : k \in 1..Len(scored)} = ValidCardSet
        /\ \A i, j \in 1..Len(scored) :
               i < j =>
                   /\ scored[i][1] >= scored[j][1]
                   /\ scored[i][1] = scored[j][1] =>
                          PlaceOf(scored[i][2]) < PlaceOf(scored[j][2])
        /\ Len(scored) > 0 => best_tool = scored[1][2]
        /\ (pc # "select" /\ branch = "best") => selected = <<scored[1][2]>>
        /\ (pc = "done" /\ matched_tool # NoneTool) => matched_tool = scored[1][2]

\* Two cards tie for the highest score, which is enough for a single
\* selection: the earlier one in the catalog was selected and returned.
C19_Witness ==
    /\ pc = "done"
    /\ branch = "best"
    /\ Len(scored) >= 3
    /\ scored[1][1] = scored[2][1]
    /\ scored[2][1] > scored[3][1]
    /\ matched_tool = scored[1][2]
    /\ selected = <<scored[1][2]>>
    /\ PlaceOf(scored[1][2]) > 1

---------------------------------------------------------------------------
(* Frame. *)

(* C20: no step of _build_context (explicit-mention detection, scoring and *)
(* sorting, selection, rendering) changes the catalog, its cards, their    *)
(* fields or their order, or the category map.                             *)
C20_ReadOnlyCore ==
    [][cards' = cards /\ category_map' = category_map]_vars

\* A call ran to its end on a catalog that the ranking orders differently,
\* with a category map in use.
C20_Witness ==
    /\ pc = "done"
    /\ Len(selected) > 1
    /\ ToolsOf(scored) # SelectSeq(cards, IsDict)
    /\ DOMAIN category_map # {}
    /\ \E k \in 1..Len(selected) : ~MissingCategory(selected[k])

---------------------------------------------------------------------------
(* The tool words as list words. *)

\* The query's token set holds "tool" or "tools".
HasToolWord ==
    LET tokens == SeqToSet(Tokens(Norm(query)))
    IN  TOOL_TOKEN \in tokens \/ TOOLS_TOKEN \in tokens

\* C25: every query whose token set holds "tool" or "tools" is a multi-tool
\* request, with no other list word needed, and is routed to list selection,
\* never to a single-tool branch.
C25_ToolWordIsListIntent ==
    (pc \in {"render", "done", "raised"} /\ HasToolWord)
        => (branch = "list" /\ IsMultiToolRequest(query))

\* "what does invoice tool do" has no list word but "tool" and was answered
\* by list selection.
C25_Witness ==
    /\ pc = "done"
    /\ query = "what does invoice tool do"
    /\ branch = "list"
    /\ SeqToSet(Tokens(Norm(query))) \cap LIST_INTENT_TOKENS = {TOOL_TOKEN}

---------------------------------------------------------------------------
(* The matched tool is part of the single-tool context. *)

\* C26: in single-tool intent a matched tool is the first selected card, and
\* the selection has at most 3 cards.
C26_MatchedToolInContext ==
    (pc \in {"render", "done"} /\ branch # "list")
        => /\ Len(selected) <= 3
           /\ (pc = "done" /\ matched_tool # NoneTool)
                 => (Len(selected) >= 1 /\ selected[1] = matched_tool)

\* A weak match: several top tools selected, the best of them reported, and
\* the best is not the first of them in the catalog.
C26_Witness ==
    /\ pc = "done"
    /\ branch = "top"
    /\ Len(selected) > 1
    /\ matched_tool # NoneTool
    /\ selected[1] = matched_tool
    /\ \E i, j \in 1..Len(cards) : i < j /\ cards[j] = selected[1] /\ cards[i] = selected[2]

---------------------------------------------------------------------------
(* The offline list. *)

\* A multi-tool query that holds an offline phrase and not "all tools".
OfflineListQuery ==
    /\ ListIntent
    /\ \E phrase \in OFFLINE_QUERY_PHRASES : Contains(Norm(query), phrase)
    /\ ~HasAllTools

\* The places of the catalog that hold a dict with a truthy offlineEnabled.
OfflinePlaces == {i \in 1..Len(cards) : IsDict(cards[i]) /\ cards[i].offlineEnabled}

\* The places of the catalog that hold a dict.
ValidPlaces == {i \in 1..Len(cards) : IsDict(cards[i])}

\* seq lists, in catalog order, the cards at the given places.
ListsPlaces(seq, places) ==
    /\ Len(seq) = Cardinality(places)
    /\ \A i \in places : seq[Cardinality({j \in places : j <= i})] = cards[i]

\* C27: for a multi-tool query with an offline phrase and without "all
\* tools" the selection is the valid cards flagged offlineEnabled, in
\* catalog order, whatever the scores, explicit mentions and focus tokens;
\* when no card is flagged it is the first 5 valid cards.
C27_OfflineList ==
    (pc \in {"render", "done"} /\ OfflineListQuery) =>
        IF OfflinePlaces # {}
        THEN ListsPlaces(selected, OfflinePlaces)
        ELSE ListsPlaces(selected, {i \in ValidPlaces :
                                      Cardinality({j \in ValidPlaces : j <= i}) <= 5})

\* The query names a card that does not work offline: the card scored
\* highest and is left out, and two offline cards are listed.
C27_Witness ==
    /\ pc = "done"
    /\ OfflineListQuery
    /\ explicit_ids # {}
    /\ Len(selected) = 2
    /\ Len(scored) > 0
    /\ ~scored[1][2].offlineEnabled
    /\ Lower(Strip(scored[1][2].id)) \in explicit_ids

---------------------------------------------------------------------------
(* The chat endpoint: what a request asks and how it ended. *)

\* A key of the request body, None when the body is not an object.
RequestField(key) == IF IsDict(request_data) THEN Get(request_data, key) ELSE PyNone

\* The handler has returned a response or an exception has left it.
ChatFinished == stage \in {"responded", "raised"}

HasError == "error" \in DOMAIN response.body

\* The assistant was called and the call raised.
AssistantFailed == completion # PyNone /\ completion.raises

\* The request was accepted but the server has no API key or no SDK.
AssistantUnavailable ==
    /\ stage = "responded"
    /\ Len(effects) > 0
    /\ (api_key = "" \/ ~sdk_installed)

\* The assistant returned an answer that is empty or has fewer than 3 words.
AnswerTooShort ==
    /\ completion # PyNone
    /\ ~completion.raises
    /\ LET answer == Strip(OrEmpty(completion.output_text).value)
       IN  answer = "" \/ WordCount(answer) < 3

\* 200 with the fallback answer of the matched tool and its id.
AnsweredWithFallback ==
    /\ response.status = HTTP_200_OK
    /\ response.body.answer = FallbackAnswer(matched_tool)
    /\ response.body.matchedToolId =
           (IF matched_tool = NoneTool THEN PyNone ELSE PyStr(matched_tool.id))
    /\ (matched_tool = NoneTool) => (response.body.answer = FALLBACK_NO_TOOL)

\* An error response: no answer and no matchedToolId.
AnsweredWithError(code) ==
    /\ response.status = code
    /\ DOMAIN response.body \cap {"answer", "matchedToolId"} = {}
    /\ HasError

---------------------------------------------------------------------------
(* The checks of the chat endpoint. *)

\* The message is missing, empty or only whitespace.
MessageMissing ==
    LET m == RequestField("message")
    IN  m = PyNone \/ (m.pytype = "str" /\ Strip(m.value) = "")

\* The message is a string that is not blank.
MessagePresent ==
    LET m == RequestField("message")
    IN  m.pytype = "str" /\ Strip(m.value) # ""

\* OPENAI_API_KEY is unset or blank.
ApiKeyBlank == Strip(MapGet(environ, ENV_OPENAI_API_KEY, "")) = ""

\* C22: a request whose message is missing, empty or only whitespace is
\* answered with 400 and an error field, whatever the configuration, and
\* nothing is read or called for it: no metadata load, no assistant call.
C22_MessageRequired ==
    MessageMissing =>
        /\ effects = <<>>
        /\ ChatFinished =>
              /\ stage = "responded"
              /\ response.status = HTTP_400_BAD_REQUEST
              /\ HasError

\* What the handler does outside its locals, in the order of its checks.
CheckOrder == <<"getenv", "import openai", "read metadata", "responses.create">>

\* The response the first failing check gives, and how far the handler got.
FirstFailure ==
    IF MessageMissing THEN <<HTTP_400_BAD_REQUEST, 0>>
    ELSE IF ApiKeyBlank THEN <<HTTP_503_SERVICE_UNAVAILABLE, 1>>
    ELSE IF ~sdk_installed THEN <<HTTP_503_SERVICE_UNAVAILABLE, 2>>
    ELSE IF ~metadata_files.found THEN <<HTTP_500_INTERNAL_SERVER_ERROR, 3>>
    ELSE IF AssistantFailed THEN <<HTTP_502_BAD_GATEWAY, 4>>
    ELSE <<HTTP_200_OK, 4>>

\* C23: a request with a message and no API key is answered with 503 and an
\* error field; the checks run in the order message, API key, SDK import,
\* metadata load, assistant call, and the first that fails decides the
\* response, with no later step executed.
C23_CheckOrdering ==
    /\ effects = SubSeq(CheckOrder, 1, Len(effects))
    /\ (ChatFinished /\ (MessageMissing \/ MessagePresent)) =>
          /\ stage = "responded"
          /\ response.status = FirstFailure[1]
          /\ effects = SubSeq(CheckOrder, 1, FirstFailure[2])
          /\ (response.status # HTTP_200_OK) => HasError
          /\ (MessagePresent /\ ApiKeyBlank) =>
                 response.status = HTTP_503_SERVICE_UNAVAILABLE

\* Every field of the request that the handler strips is a string or
\* missing, items of the history included.
StringFields ==
    /\ HasStrip(OrEmpty(RequestField("message")))
    /\ HasStrip(OrEmpty(RequestField("currentToolId")))
    /\ ~SanitizeRaises(RequestField("history"))

---------------------------------------------------------------------------
(* The session endpoints: signup_view, login_view and logout_view. *)

HTTP_201_CREATED == 201
HTTP_401_UNAUTHORIZED == 401
HTTP_403_FORBIDDEN == 403
HTTP_409_CONFLICT == 409

\* A user of django.contrib.auth as the views use it.
User(username, email, password) ==
    [username |-> username, email |-> email, password |-> password]

\* tests.py's user.
Alice == User("alice", "alice@example.com", "S3curePass123!")

\* CsrfExemptSessionAuthentication.enforce_csrf returns without looking at
\* the request: no request is refused for its token.
EnforceCsrfRejects(request) == FALSE

\* authenticate(request, username=..., password=...): the user of that name
\* when the password is theirs, else None.
Authenticate(username, password) ==
    LET found == {u \in users : u.username = username /\ u.password = password}
    IN  IF found = {} THEN PyNone ELSE CHOOSE u \in found : TRUE

\* The "user" object of a response.
UserBody(u) == [username |-> u.username, email |-> u.email]

\* A response of a session endpoint.
AuthResponse(code, text, body) ==
    [status |-> code, text |-> text, user |-> body]

\* The requests that are posted: one of the three endpoints, with or without
\* a valid CSRF token, fields missing ("") or present.
Usernames == {"", "alice", "bob"}
Emails == {"", "alice@example.com", "bob@example.com"}
Passwords == {"", "S3curePass123!", "An0therStrongPass!"}
CsrfTokens == {"", "valid"}

AuthRequest(endpoint, token, username, email, password) ==
    [endpoint |-> endpoint, csrf |-> token, username |-> username,
     email |-> email, password |-> password]

\* The views start with tests.py's user signed up or with nobody, and an
\* anonymous session.
AuthInit ==
    /\ users \in {{}, {Alice}}
    /\ session_user = ""
    /\ auth_request = PyNone
    /\ auth_response = PyNone
    /\ ChatIdle
    /\ ShareIdle
    /\ SendIdle
    /\ ContextIdle

beyond_auth == <<context_vars, chat_vars, share_vars, send_vars>>

\* signup_view.
Signup ==
    \E token \in CsrfTokens, username \in Usernames, email \in Emails,
       password \in Passwords :
        LET request == AuthRequest("/api/signup/", token, username, email,
                                   password)
            user == User(username, email, password)
        IN  /\ auth_request' = request
            /\ IF EnforceCsrfRejects(request)
               THEN /\ auth_response' =
                           AuthResponse(HTTP_403_FORBIDDEN, "", PyNone)
                    /\ UNCHANGED <<users, session_user>>
               ELSE IF username = "" \/ email = "" \/ password = ""
               THEN /\ auth_response' = AuthResponse(HTTP_400_BAD_REQUEST,
                           "Username, email, and password are required",
                           PyNone)
                    /\ UNCHANGED <<users, session_user>>
               ELSE IF \E u \in users : u.username = username
               THEN /\ auth_response' = AuthResponse(HTTP_409_CONFLICT,
                           "Username already exists", PyNone)
                    /\ UNCHANGED <<users, session_user>>
               ELSE IF \E u \in users : u.email = email
               THEN /\ auth_response' = AuthResponse(HTTP_409_CONFLICT,
                           "Email already exists", PyNone)
                    /\ UNCHANGED <<users, session_user>>
               ELSE /\ users' = users \cup {user}
                    /\ session_user' = username
                    /\ auth_response' = AuthResponse(HTTP_201_CREATED,
                           "Signup successful", UserBody(user))
            /\ UNCHANGED beyond_auth

\* login_view.
Login ==
    \E token \in CsrfTokens, username \in Usernames, password \in Passwords :
        LET request == AuthRequest("/api/login/", token, username, "",
                                   password)
            user == Authenticate(username, password)
        IN  /\ auth_request' = request
            /\ IF EnforceCsrfRejects(request)
               THEN /\ auth_response' =
                           AuthResponse(HTTP_403_FORBIDDEN, "", PyNone)
                    /\ UNCHANGED session_user
               ELSE IF username = "" \/ password = ""
               THEN /\ auth_response' = AuthResponse(HTTP_400_BAD_REQUEST,
                           "Username and password are required", PyNone)
                    /\ UNCHANGED session_user
               ELSE IF user = PyNone
               THEN /\ auth_response' = AuthResponse(HTTP_401_UNAUTHORIZED,
                           "Invalid credentials", PyNone)
                    /\ UNCHANGED session_user
               ELSE /\ session_user' = username
                    /\ auth_response' = AuthResponse(HTTP_200_OK,
                           "Login successful", UserBody(user))
            /\ UNCHANGED users
            /\ UNCHANGED beyond_auth

\* logout_view.
Logout ==
    \E token \in CsrfTokens :
        LET request == AuthRequest("/api/logout/", token, "", "", "")
        IN  /\ auth_request' = request
            /\ IF EnforceCsrfRejects(request)
               THEN /\ auth_response' =
                           AuthResponse(HTTP_403_FORBIDDEN, "", PyNone)
                    /\ UNCHANGED session_user
               ELSE /\ session_user' = ""
                    /\ auth_response' = AuthResponse(HTTP_200_OK,
                           "Logged out", PyNone)
            /\ UNCHANGED users
            /\ UNCHANGED beyond_auth

AuthNext ==
    \/ Signup
    \/ Login
    \/ Logout

AuthSpec == AuthInit /\ [][AuthNext]_vars

\* C24: a POST to /api/login/, /api/signup/ or /api/logout/ that carries no
\* valid CSRF token is answered with 403 and changes neither the session nor
\* the set of users.
C24_CsrfProtection ==
    [][(auth_request'.csrf # "valid") =>
          /\ auth_response'.status = HTTP_403_FORBIDDEN
          /\ session_user' = session_user
          /\ users' = users]_auth_vars

---------------------------------------------------------------------------
(* The text-share endpoints: create_text_share and create_file_share with  *)
(* _create_share, get_text_share, get_latest_text_share and                *)
(* download_shared_file.  Time is in seconds.                              *)

CODE_LENGTH == 4
MAX_TEXT_LENGTH == 20000
MAX_FILE_SIZE == 10485760
TTL_SECONDS == 60 * 60
MAX_GENERATION_ATTEMPTS == 80

HTTP_404_NOT_FOUND == 404
HTTP_413_REQUEST_ENTITY_TOO_LARGE == 413

\* How often the clock is advanced.
MaxTicks == 2

\* By how much the clock advances at once: a second, or a second less than
\* the life of a share.
Advances == {1, TTL_SECONDS - 1}

\* The codes random.randint produces here, of the 10 ** CODE_LENGTH there are.
GeneratedCodes == {"0007", "0042"}

\* The client addresses of the requests; "" is a request without one.
ClientIps == {"", "10.0.0.1"}

\* A row of TextShare.  created_at is the time of the insertion; a
\* client_ip of None is "".
Share(code, client_ip, created_at, expires_at, file) ==
    [code |-> code, client_ip |-> client_ip, created_at |-> created_at,
     expires_at |-> expires_at, file |-> file]

CleanupExpiredAndLive(now, stored) == {}

CleanupExpiredBeforeNow(now, stored) == {s \in stored : ~(s.expires_at < now)}

\* TextShare.objects.filter(expires_at__lte=now).delete(): what is left.
CleanupExpired(now, stored) == {s \in stored : ~(s.expires_at <= now)}

\* TextShare.objects.create raises IntegrityError for a code that is stored.
CodeTaken(code) == \E s \in shares : s.code = code

\* "".join(ch for ch in (code or "") if ch.isdigit())
RECURSIVE Sanitized(_)
Sanitized(code) ==
    IF code = "" THEN ""
    ELSE LET ch == SubSeq(code, 1, 1)
             rest == Sanitized(SubSeq(code, 2, Len(code)))
         IN  IF ch \in {"0", "1", "2", "3", "4", "5", "6", "7", "8", "9"}
             THEN ch \o rest
             ELSE rest

\* TextShare.objects.filter(code=...).first(): the rows of that code.
ByCode(stored, code) == {s \in stored : s.code = code}

\* filter(client_ip=..., expires_at__gt=now).order_by("-created_at").first():
\* the rows that may come first.
LatestOf(stored, client_ip, now) ==
    LET mine == {s \in stored : s.client_ip = client_ip /\ s.expires_at > now}
    IN  {s \in mine : \A t \in mine : t.created_at <= s.created_at}

\* The answer of an endpoint, with the code or the client address of the
\* request, the time it was handled at and whether a share that had expired
\* by then is still stored when it returns.
ShareReply(endpoint, arg, status_code, share) ==
    [endpoint |-> endpoint, arg |-> arg, status |-> status_code,
     share |-> share, at |-> clock,
     expired_left |-> \E s \in shares' : s.expires_at <= clock]

\* The bodies that are posted: the length of the stripped text, and the size
\* of the uploaded file (0 for none).
TextLengths == {0, 2, MAX_TEXT_LENGTH + 1}
FileSizes == {0, 5, MAX_FILE_SIZE + 1}

\* The code path of a get or a download request.
RequestedCodes == {"0007", "00-42", "12"}

\* No creation is in progress.
NoCreation == <<>>

ShareInit ==
    /\ clock = 0
    /\ ticks = 0
    /\ shares = {}
    /\ creating = NoCreation
    /\ share_reply = PyNone
    /\ ChatIdle
    /\ AuthIdle
    /\ SendIdle
    /\ ContextIdle

beyond_share == <<context_vars, chat_vars, auth_vars, send_vars>>

\* The clock advances.
Tick ==
    /\ ticks < MaxTicks
    /\ \E d \in Advances : clock' = clock + d
    /\ ticks' = ticks + 1
    /\ UNCHANGED <<shares, creating, share_reply>>
    /\ UNCHANGED beyond_share

\* _create_share run from its first line to its last with no other request
\* in between, and the answer of the endpoint: the time is sampled, the
\* expired shares are deleted, and either a generated code that is free is
\* inserted (201), or every generated code of the MAX_GENERATION_ATTEMPTS
\* passes is taken (503).
CreateShare(endpoint, client_ip, file) ==
    LET now == clock
        kept == CleanupExpired(now, shares)
        expires_at == now + TTL_SECONDS
        taken == {code \in GeneratedCodes : ByCode(kept, code) # {}}
    IN  /\ \/ \E code \in GeneratedCodes \ taken :
                LET share == Share(code, client_ip, now, expires_at, file)
                IN  /\ shares' = kept \cup {share}
                    /\ share_reply' =
                           ShareReply(endpoint, client_ip, HTTP_201_CREATED, share)
           \/ /\ taken # {}
              /\ shares' = kept
              /\ share_reply' = ShareReply(endpoint, client_ip,
                                    HTTP_503_SERVICE_UNAVAILABLE, PyNone)

\* create_text_share.
CreateTextShare ==
    /\ \E length \in TextLengths, ip \in ClientIps :
        IF length = 0
        THEN /\ UNCHANGED shares
             /\ share_reply' = ShareReply("create_text", ip,
                                   HTTP_400_BAD_REQUEST, PyNone)
        ELSE IF length > MAX_TEXT_LENGTH
        THEN /\ UNCHANGED shares
             /\ share_reply' = ShareReply("create_text", ip,
                                   HTTP_413_REQUEST_ENTITY_TOO_LARGE, PyNone)
        ELSE CreateShare("create_text", ip, FALSE)
    /\ UNCHANGED <<clock, ticks, creating>>
    /\ UNCHANGED beyond_share

\* create_file_share.
CreateFileShare ==
    /\ \E size \in FileSizes, ip \in ClientIps :
        IF size = 0
        THEN /\ UNCHANGED shares
             /\ share_reply' = ShareReply("create_file", ip,
                                   HTTP_400_BAD_REQUEST, PyNone)
        ELSE IF size > MAX_FILE_SIZE
        THEN /\ UNCHANGED shares
             /\ share_reply' = ShareReply("create_file", ip,
                                   HTTP_413_REQUEST_ENTITY_TOO_LARGE, PyNone)
        ELSE CreateShare("create_file", ip, TRUE)
    /\ UNCHANGED <<clock, ticks, creating>>
    /\ UNCHANGED beyond_share

\* get_text_share.
GetTextShare ==
    /\ \E code \in RequestedCodes :
        LET sanitized == Sanitized(code)
            now == clock
            found == ByCode(CleanupExpired(now, shares), sanitized)
        IN  IF Len(sanitized) # CODE_LENGTH
            THEN /\ UNCHANGED shares
                 /\ share_reply' =
                        ShareReply("get", code, HTTP_400_BAD_REQUEST, PyNone)
            ELSE /\ shares' = CleanupExpired(now, shares)
                 /\ IF found = {}
                    THEN share_reply' =
                             ShareReply("get", code, HTTP_404_NOT_FOUND, PyNone)
                    ELSE \E share \in found :
                             share_reply' =
                                 ShareReply("get", code, HTTP_200_OK, share)
    /\ UNCHANGED <<clock, ticks, creating>>
    /\ UNCHANGED beyond_share

\* get_latest_text_share.
GetLatestTextShare ==
    /\ \E ip \in ClientIps :
        LET now == clock
            found == LatestOf(CleanupExpired(now, shares), ip, now)
        IN  IF ip = ""
            THEN /\ UNCHANGED shares
                 /\ share_reply' =
                        ShareReply("latest", ip, HTTP_404_NOT_FOUND, PyNone)
            ELSE /\ shares' = CleanupExpired(now, shares)
                 /\ IF found = {}
                    THEN share_reply' =
                             ShareReply("latest", ip, HTTP_404_NOT_FOUND, PyNone)
                    ELSE \E share \in found :
                             share_reply' =
                                 ShareReply("latest", ip, HTTP_200_OK, share)
    /\ UNCHANGED <<clock, ticks, creating>>
    /\ UNCHANGED beyond_share

\* download_shared_file.
DownloadSharedFile ==
    /\ \E code \in RequestedCodes :
        LET sanitized == Sanitized(code)
            now == clock
            found == ByCode(CleanupExpired(now, shares), sanitized)
        IN  IF Len(sanitized) # CODE_LENGTH
            THEN /\ UNCHANGED shares
                 /\ share_reply' =
                        ShareReply("download", code, HTTP_400_BAD_REQUEST, PyNone)
            ELSE /\ shares' = CleanupExpired(now, shares)
                 /\ IF found = {}
                    THEN share_reply' =
                             ShareReply("download", code, HTTP_404_NOT_FOUND, PyNone)
                    ELSE \E share \in found :
                             IF ~share.file
                             THEN share_reply' = ShareReply("download", code,
                                                     HTTP_404_NOT_FOUND, PyNone)
                             ELSE share_reply' = ShareReply("download", code,
                                                     HTTP_200_OK, share)
    /\ UNCHANGED <<clock, ticks, creating>>
    /\ UNCHANGED beyond_share

\* Requests one after another, while the clock advances.
ShareNext ==
    \/ Tick
    \/ CreateTextShare
    \/ CreateFileShare
    \/ GetTextShare
    \/ GetLatestTextShare
    \/ DownloadSharedFile

ShareSpec == ShareInit /\ [][ShareNext]_vars

---------------------------------------------------------------------------
(* Expiry of the shares. *)

ReadEndpoints == {"get", "latest", "download"}

\* A read endpoint has answered.
ReadAnswered ==
    /\ share_reply # PyNone
    /\ share_reply.endpoint \in ReadEndpoints

\* A creation endpoint has answered with a share.
ShareCreated ==
    /\ share_reply # PyNone
    /\ share_reply.endpoint \in {"create_text", "create_file"}
    /\ share_reply.status = HTTP_201_CREATED

\* The read request got past the check of its input: a code of CODE_LENGTH
\* digits, a client address.
InputAccepted ==
    IF share_reply.endpoint = "latest"
    THEN share_reply.arg # ""
    ELSE Len(Sanitized(share_reply.arg)) = CODE_LENGTH

\* No read returns a share that has expired at the time the request sampled.
NeverReturnsExpired ==
    (ReadAnswered /\ share_reply.status = HTTP_200_OK) =>
        share_reply.share.expires_at > share_reply.at

\* A share expires TTL_SECONDS after the time its creation sampled.
ExpiresAfterTtl ==
    ShareCreated =>
        /\ share_reply.share.expires_at = share_reply.at + TTL_SECONDS
        /\ share_reply.share \in shares

\* C28 as stated: no read returns a share whose expires_at is at or before
\* the time the request sampled, a share expires TTL_SECONDS after the time
\* its creation sampled, and every read request first deletes all shares
\* already expired.
C28_Original ==
    /\ NeverReturnsExpired
    /\ ExpiresAfterTtl
    /\ ReadAnswered => ~share_reply.expired_left

\* C28: no read returns a share whose expires_at is at or before the time
\* the request sampled, a share expires TTL_SECONDS after the time its
\* creation sampled, and a read request whose input is accepted (a code of
\* 4 digits, a client address) first deletes all shares already expired.
C28_TextShareExpiry ==
    /\ NeverReturnsExpired
    /\ ExpiresAfterTtl
    /\ (ReadAnswered /\ InputAccepted) => ~share_reply.expired_left

\* A read in the last second of a share's life returns it, and it is the
\* only share stored.
C28_Witness ==
    /\ ReadAnswered
    /\ share_reply.status = HTTP_200_OK
    /\ share_reply.at = TTL_SECONDS
    /\ share_reply.share.expires_at = TTL_SECONDS + 1
    /\ Cardinality(shares) = 1

---------------------------------------------------------------------------
(* _create_share pass by pass, two creations at a time. *)

\* The requests that create a share at the same time.
Creators == {1, 2}

\* The sizes that are posted: the length of the stripped text or the size of
\* the uploaded file; 0 is a request without one.
PostedSizes == {0, 2, MAX_FILE_SIZE + 1}

\* The largest size a creation endpoint accepts.
SizeLimit(endpoint) ==
    IF endpoint = "create_text" THEN MAX_TEXT_LENGTH ELSE MAX_FILE_SIZE

\* A creation that has not begun.  The locals of _create_share (now,
\* expires_at and the number of passes of its loop) are 0 outside the call.
NotCreating ==
    [pc |-> "idle", endpoint |-> "", now |-> 0, expires_at |-> 0,
     attempts |-> 0, status |-> 0, share |-> PyNone]

\* The client address of the creations.
CreatorIp == "10.0.0.1"

\* The first creation posts a text and the second one a file.
EndpointOf(p) == IF p = 1 THEN "create_text" ELSE "create_file"

\* What is stored when the creations begin, at the time TTL_SECONDS: nothing,
\* shares created at time 0, which have expired, and shares created a second
\* later, which have not.
StoredShare(code, now) == Share(code, CreatorIp, now, now + TTL_SECONDS, FALSE)

StoresAtTtl ==
    {{},
     {StoredShare("0007", 0)},
     {StoredShare("0007", 1)},
     {StoredShare("0007", 0), StoredShare("0042", 1)},
     {StoredShare("0007", 0), StoredShare("0042", 0)},
     {StoredShare("0007", 1), StoredShare("0042", 1)}}

AllocInit ==
    /\ clock = TTL_SECONDS
    /\ ticks = MaxTicks
    /\ shares \in StoresAtTtl
    /\ creating = [p \in Creators |-> NotCreating]
    /\ share_reply = PyNone
    /\ ChatIdle
    /\ AuthIdle
    /\ SendIdle
    /\ ContextIdle

\* create_text_share and create_file_share up to the loop of _create_share:
\* the text or the file is checked, the time is sampled and the expired
\* shares are deleted.
BeginCreateShare(p) ==
    /\ creating[p].pc \in {"idle", "returned"}
    /\ \E endpoint \in {EndpointOf(p)}, size \in PostedSizes :
        IF size = 0
        THEN /\ creating' = [creating EXCEPT ![p] =
                    [NotCreating EXCEPT !.pc = "returned",
                                        !.endpoint = endpoint,
                                        !.status = HTTP_400_BAD_REQUEST]]
             /\ UNCHANGED shares
        ELSE IF size > SizeLimit(endpoint)
        THEN /\ creating' = [creating EXCEPT ![p] =
                    [NotCreating EXCEPT !.pc = "returned",
                                        !.endpoint = endpoint,
                                        !.status =
                                          HTTP_413_REQUEST_ENTITY_TOO_LARGE]]
             /\ UNCHANGED shares
        ELSE /\ creating' = [creating EXCEPT ![p] =
                    [NotCreating EXCEPT !.pc = "loop",
                                        !.endpoint = endpoint,
                                        !.now = clock,
                                        !.expires_at = clock + TTL_SECONDS]]
             /\ shares' = CleanupExpired(clock, shares)
    /\ UNCHANGED <<clock, ticks, share_reply>>
    /\ UNCHANGED beyond_share

\* One pass of the loop of _create_share: a code is generated and the row
\* is inserted, and the endpoint answers 201; or the code is taken and the
\* loop goes on.
InsertAttempt(p) ==
    /\ creating[p].pc = "loop"
    /\ creating[p].attempts < MAX_GENERATION_ATTEMPTS
    /\ \E code \in GeneratedCodes :
        IF CodeTaken(code)
        THEN /\ creating' = [creating EXCEPT ![p].attempts = @ + 1]
             /\ UNCHANGED shares
        ELSE LET share == Share(code, CreatorIp, clock,
                                creating[p].expires_at,
                                creating[p].endpoint = "create_file")
             IN  /\ shares' = shares \cup {share}
                 /\ creating' = [creating EXCEPT ![p] =
                        [NotCreating EXCEPT !.pc = "returned",
                                            !.endpoint = creating[p].endpoint,
                                            !.status = HTTP_201_CREATED,
                                            !.share = share]]
    /\ UNCHANGED <<clock, ticks, share_reply>>
    /\ UNCHANGED beyond_share

\* The loop of _create_share is over: None, and the endpoint answers 503.
GiveUp(p) ==
    /\ creating[p].pc = "loop"
    /\ ~(creating[p].attempts < MAX_GENERATION_ATTEMPTS)
    /\ creating' = [creating EXCEPT ![p] =
           [NotCreating EXCEPT !.pc = "returned",
                               !.endpoint = creating[p].endpoint,
                               !.status = HTTP_503_SERVICE_UNAVAILABLE]]
    /\ UNCHANGED <<clock, ticks, shares, share_reply>>
    /\ UNCHANGED beyond_share

AllocNext ==
    \E p \in Creators :
        \/ BeginCreateShare(p)
        \/ InsertAttempt(p)
        \/ GiveUp(p)

AllocSpec == AllocInit /\ [][AllocNext]_vars

\* The loop of every creation is scheduled again and again.
AllocFairSpec ==
    /\ AllocSpec
    /\ \A p \in Creators : WF_vars(InsertAttempt(p) \/ GiveUp(p))

\* _create_share has returned.
Returned(p) == creating[p].pc = "returned"

\* Every creation that enters the loop returns, after at most
\* MAX_GENERATION_ATTEMPTS passes.
Terminates ==
    /\ [](\A p \in Creators : creating[p].attempts <= MAX_GENERATION_ATTEMPTS)
    /\ \A p \in Creators : (creating[p].pc = "loop") ~> Returned(p)

\* No two stored shares have the same code, and a creation returns a share
\* that is stored.
UniqueCodes ==
    /\ [](\A s, t \in shares : s.code = t.code => s = t)
    /\ [][\A p \in Creators :
            (creating[p].pc = "loop" /\ Returned(p)'
                /\ creating'[p].status = HTTP_201_CREATED) =>
                /\ creating'[p].share \in shares'
                /\ Len(creating'[p].share.code) = CODE_LENGTH
                /\ ~CodeTaken(creating'[p].share.code)]_share_vars

\* None is returned, and 503 answered, only after MAX_GENERATION_ATTEMPTS
\* passes that all found the code taken, and nothing is stored then.
NoneOnlyAfterAllCollide ==
    /\ [][\A p \in Creators :
            (creating[p].pc = "loop" /\ Returned(p)'
                /\ creating'[p].status # HTTP_201_CREATED) =>
                /\ creating'[p].status = HTTP_503_SERVICE_UNAVAILABLE
                /\ creating'[p].share = PyNone
                /\ creating[p].attempts = MAX_GENERATION_ATTEMPTS
                /\ shares' = shares]_share_vars
    /\ [][\A p \in Creators :
            (creating[p].pc = "loop" /\ creating'[p].pc = "loop") =>
                /\ creating'[p].attempts \in
                       {creating[p].attempts, creating[p].attempts + 1}
                /\ (creating'[p].attempts # creating[p].attempts) =>
                       shares' = shares]_share_vars

\* C29 as stated: _create_share returns after at most
\* MAX_GENERATION_ATTEMPTS passes, the share it returns has a code of 4
\* digits that no other stored share has, every share that was stored stays
\* stored, and None (503) is returned only when all passes collide.
C29_Original ==
    /\ Terminates
    /\ UniqueCodes
    /\ NoneOnlyAfterAllCollide
    /\ [][shares \subseteq shares']_share_vars

\* C29: _create_share returns after at most MAX_GENERATION_ATTEMPTS passes,
\* the share it returns has a code of 4 digits that no other stored share
\* has, every stored share that has not expired stays stored, also when two
\* creations interleave, and None (503) is returned only when all passes
\* collide.
C29_CodeAllocation ==
    /\ Terminates
    /\ UniqueCodes
    /\ NoneOnlyAfterAllCollide
    /\ [][\A s \in shares : s.expires_at > clock => s \in shares']_share_vars

\* Two creations at a time: the first deleted an expired share and found
\* the code of the live one on all its passes, the second took the code the
\* expired share had.
C29_Witness ==
    /\ creating[1].status = HTTP_503_SERVICE_UNAVAILABLE
    /\ creating[2].status = HTTP_201_CREATED
    /\ creating[2].share.code = "0007"
    /\ StoredShare("0042", 1) \in shares
    /\ Cardinality(shares) = 2

---------------------------------------------------------------------------
(* send_email with the new payload: one mail per entry of recipients. *)

\* How many entries the enumerated lists of recipients have at most.
MaxRecipients == 3

\* errors[:50]
ErrorsInResponse == 50

\* smtp_config.smtp_email
SenderEmail == "me@gmail.com"

\* The saved configurations a request names: none, one that is not the
\* user's, one without an app password, one whose password cannot be
\* decrypted, and a usable one.
SmtpConfigIds == {"", "unknown", "no password", "unreadable", "usable"}

\* The position of character ch in s, 0 when it is not there.
RECURSIVE IndexOf(_, _, _)
IndexOf(s, ch, from) ==
    IF from > Len(s) THEN 0
    ELSE IF SubSeq(s, from, from) = ch THEN from
    ELSE IndexOf(s, ch, from + 1)

\* any(sep in candidate for sep in [",", ";", "\n", "\r"])
HasSeparator(candidate) ==
    \E sep \in {",", ";", "\n", "\r"} : IndexOf(candidate, sep, 1) # 0

\* parseaddr(candidate)[1]: the address between < and >, or the candidate.
ParseAddr(candidate) ==
    LET open == IndexOf(candidate, "<", 1)
        close == IndexOf(candidate, ">", 1)
    IN  IF open # 0 /\ close > open
        THEN SubSeq(candidate, open + 1, close - 1)
        ELSE candidate

\* validate_email accepts the address: one @ with a local part before it and
\* a dotted domain after it, and no blank.
ValidEmail(address) ==
    LET at == IndexOf(address, "@", 1)
    IN  /\ at > 1
        /\ IndexOf(address, "@", at + 1) = 0
        /\ IndexOf(address, " ", 1) = 0
        /\ IndexOf(address, ".", at + 2) \in (at + 2)..(Len(address) - 1)

\* _normalize_recipient_email: the address, or the ValueError it raises.
NormalizeRecipientEmail(value) ==
    IF value.pytype # "str"
    THEN [raised |-> TRUE, text |-> "Invalid recipient email"]
    ELSE LET candidate == Strip(value.value)
             parsed == ParseAddr(candidate)
             normalized == Strip(IF parsed = "" THEN candidate ELSE parsed)
         IN  IF candidate = ""
             THEN [raised |-> TRUE, text |-> "Recipient email is empty"]
             ELSE IF HasSeparator(candidate)
             THEN [raised |-> TRUE,
                   text |-> "Invalid recipient '" \o candidate
                            \o "'. Use one email per recipient entry."]
             ELSE IF ~ValidEmail(normalized)
             THEN [raised |-> TRUE,
                   text |-> "Invalid recipient email: " \o candidate]
             ELSE [raised |-> FALSE, text |-> normalized]

\* What the body of the try block of the loop raises for an entry before
\* anything is sent, "" when it gets as far as sending.
EntryError(item, subject_template, body_template) ==
    IF item.pytype # "dict"
    THEN "Each recipient must be an object"
    ELSE LET recipient == Get(item, "to")
             raw_vars == Get(item, "vars")
             vars_map == IF Truthy(raw_vars) THEN raw_vars
                         ELSE PyDict([key \in {} |-> PyNone])
         IN  IF ~Truthy(recipient) \/ recipient.pytype # "str"
             THEN "Invalid recipient 'to'"
             ELSE IF vars_map.pytype # "dict"
             THEN "'vars' must be an object"
             ELSE IF subject_template.pytype # "str"
             THEN "'" \o subject_template.pytype
                  \o "' object has no attribute 'replace'"
             ELSE IF body_template.pytype # "str"
             THEN "'" \o body_template.pytype
                  \o "' object has no attribute 'replace'"
             ELSE IF NormalizeRecipientEmail(recipient).raised
             THEN NormalizeRecipientEmail(recipient).text
             ELSE ""

\* item.get("to") if isinstance(item, dict) else None
EntryTo(item) == IF item.pytype = "dict" THEN Get(item, "to") ELSE PyNone

\* _parse_json_maybe(value, default) for a value that is None, a list, a
\* dict, or a string that is blank or not JSON.
ParseJsonMaybe(value, default) ==
    IF value.pytype \in {"dict", "list"} THEN value ELSE default

\* The entries of the lists of recipients.
Entry(to, vars_map) == PyDict([to |-> to, vars |-> vars_map])

NameVars == PyDict([Name |-> PyStr("Ann")])

Entries ==
    {PyStr("ann@example.com"),
     Entry(PyNone, NameVars),
     Entry(PyInt(7), PyNone),
     Entry(PyStr("ann@example.com"), PyList(<<PyStr("Ann")>>)),
     Entry(PyStr("ann@example.com, bob@example.com"), NameVars),
     Entry(PyStr("not-an-email"), PyNone),
     Entry(PyStr(" Ann <ann@example.com> "), NameVars),
     Entry(PyStr("bob@example.com"), PyList(<<>>))}

\* A list of n times the same entry.
RECURSIVE Repeated(_, _)
Repeated(item, n) == IF n = 0 THEN <<>> ELSE <<item>> \o Repeated(item, n - 1)

\* A list with more failing entries than the response lists errors, and a
\* good entry at its end.
LongList ==
    Repeated(Entry(PyStr("not-an-email"), PyNone), ErrorsInResponse + 1)
        \o <<Entry(PyStr("bob@example.com"), PyNone)>>

RecipientLists ==
    UNION {[1..n -> Entries] : n \in 0..MaxRecipients} \cup {LongList}

\* The values of the recipients field.
RecipientValues ==
    {PyNone, PyStr("oops"), Entry(PyStr("ann@example.com"), PyNone)}
        \cup {PyList(list) : list \in RecipientLists}

\* The values of a template field: missing, a text, a number.
TemplateValues == {PyNone, PyStr("Hi $Name"), PyInt(5)}

SendRequest(smtp_config_id, subject_template, body_template, raw) ==
    [smtp_config_id |-> smtp_config_id,
     subject_template |-> subject_template,
     body_template |-> body_template,
     recipients |-> raw]

\* The requests: every configuration and template with a short list, and
\* every value of recipients with a usable configuration and both templates.
SendRequests ==
    {SendRequest(id, subject, body, raw) :
        id \in SmtpConfigIds, subject \in TemplateValues,
        body \in TemplateValues,
        raw \in {PyNone,
                 PyList(<<Entry(PyStr("bob@example.com"), PyNone)>>)}}
    \cup {SendRequest("usable", PyStr("Hi $Name"), body, raw) :
            body \in {PyStr("Hi $Name"), PyInt(5)}, raw \in RecipientValues}

SendInit ==
    /\ send_request \in SendRequests
    /\ send_pc = "received"
    /\ recipients = <<>>
    /\ idx = 0
    /\ success_count = 0
    /\ errors = <<>>
    /\ attempted = <<>>
    /\ outbox = <<>>
    /\ send_response = PyNone
    /\ ChatIdle
    /\ AuthIdle
    /\ ShareIdle
    /\ ContextIdle

beyond_send == <<context_vars, chat_vars, auth_vars, share_vars>>

\* A response of send_email before its loop.
SendError(code, text) == [status |-> code, error |-> text]

\* send_email up to its loop: the configuration is looked up, the sender is
\* built, the list of recipients and the templates are checked.  A request
\* with neither a template nor recipients is one with the old payload, which
\* has no recipients here.
ReceiveSend ==
    /\ send_pc = "received"
    /\ LET id == send_request.smtp_config_id
           subject_template == send_request.subject_template
           body_template == send_request.body_template
           recipients_raw == send_request.recipients
           is_new_mode == \/ Truthy(subject_template)
                          \/ Truthy(body_template)
                          \/ Truthy(recipients_raw)
           parsed == ParseJsonMaybe(recipients_raw, PyList(<<>>))
           reply(r) == /\ send_response' = r
                       /\ send_pc' = "responded"
                       /\ UNCHANGED recipients
       IN  IF id = ""
           THEN reply(SendError(HTTP_400_BAD_REQUEST,
                                "smtp_config_id is required"))
           ELSE IF id = "unknown"
           THEN reply(SendError(HTTP_404_NOT_FOUND, "Not found."))
           ELSE IF id = "no password"
           THEN reply(SendError(HTTP_400_BAD_REQUEST,
                "Saved app password is missing. Please update SMTP settings."))
           ELSE IF id = "unreadable"
           THEN reply(SendError(HTTP_500_INTERNAL_SERVER_ERROR,
                                "Failed to send email"))
           ELSE IF ~is_new_mode
           THEN reply(SendError(HTTP_400_BAD_REQUEST,
                "Recipients, subject, body and smtp_config_id are required"))
           ELSE IF ~Truthy(parsed) \/ parsed.pytype # "list"
           THEN reply(SendError(HTTP_400_BAD_REQUEST,
                                "recipients must be a non-empty list"))
           ELSE IF ~Truthy(subject_template) \/ ~Truthy(body_template)
           THEN reply(SendError(HTTP_400_BAD_REQUEST,
                "subject_template and body_template are required"))
           ELSE /\ recipients' = parsed.items
                /\ send_pc' = "loop"
                /\ UNCHANGED send_response
    /\ UNCHANGED <<send_request, idx, success_count, errors, attempted, outbox>>
    /\ UNCHANGED beyond_send

\* errors.append({"index": idx, "to": ..., "error": str(exc)})
RecordError(item, text) ==
    errors' = Append(errors, [index |-> idx, to |-> EntryTo(item),
                              error |-> text])

\* What SendTemplated is when a failure leaves the loop: the later entries
\* are not taken up.
SendTemplatedUntilFailure ==
    /\ send_pc = "loop"
    /\ idx < Len(recipients)
    /\ LET item == recipients[idx + 1]
           failure == EntryError(item, send_request.subject_template,
                                 send_request.body_template)
       IN  IF failure # ""
           THEN /\ RecordError(item, failure)
                /\ idx' = Len(recipients)
                /\ UNCHANGED <<success_count, outbox>>
           ELSE /\ outbox' = Append(outbox,
                        [index |-> idx, sender |-> SenderEmail,
                         to |-> NormalizeRecipientEmail(Get(item, "to")).text])
                /\ success_count' = success_count + 1
                /\ idx' = idx + 1
                /\ UNCHANGED errors
    /\ attempted' = Append(attempted, idx)
    /\ UNCHANGED <<send_request, send_pc, recipients, send_response>>
    /\ UNCHANGED beyond_send

\* One pass of the loop: the entry is checked, its mail is rendered and sent,
\* and success_count goes up; or what was raised is recorded.  idx counts
\* from 0 as enumerate does.
SendTemplated ==
    /\ send_pc = "loop"
    /\ idx < Len(recipients)
    /\ LET item == recipients[idx + 1]
           failure == EntryError(item, send_request.subject_template,
                                 send_request.body_template)
       IN  IF failure # ""
           THEN /\ RecordError(item, failure)
                /\ UNCHANGED <<success_count, outbox>>
           ELSE \/ /\ outbox' = Append(outbox,
                        [index |-> idx, sender |-> SenderEmail,
                         to |-> NormalizeRecipientEmail(Get(item, "to")).text])
                   /\ success_count' = success_count + 1
                   /\ UNCHANGED errors
                \/ /\ RecordError(item, "Connection unexpectedly closed")
                   /\ UNCHANGED <<success_count, outbox>>
    /\ attempted' = Append(attempted, idx)
    /\ idx' = idx + 1
    /\ UNCHANGED <<send_request, send_pc, recipients, send_response>>
    /\ UNCHANGED beyond_send

\* errors[:50]
FirstErrors(all) ==
    SubSeq(all, 1, IF Len(all) > ErrorsInResponse THEN ErrorsInResponse
                   ELSE Len(all))

\* The response after the loop.
RespondBulk ==
    /\ send_pc = "loop"
    /\ ~(idx < Len(recipients))
    /\ send_response' =
         IF success_count = 0
         THEN [status |-> HTTP_400_BAD_REQUEST,
               error |-> "No emails were sent",
               sender |-> SenderEmail,
               recipients_attempted |-> Len(recipients),
               recipients_sent |-> success_count,
               errors |-> FirstErrors(errors)]
         ELSE [status |-> HTTP_200_OK,
               text |-> "Bulk emails processed",
               sender |-> SenderEmail,
               recipients_attempted |-> Len(recipients),
               recipients_sent |-> success_count,
               errors |-> FirstErrors(errors)]
    /\ send_pc' = "responded"
    /\ UNCHANGED <<send_request, recipients, idx, success_count, errors,
                   attempted, outbox>>
    /\ UNCHANGED beyond_send

SendNext ==
    \/ ReceiveSend
    \/ SendTemplated
    \/ RespondBulk

SendSpec == SendInit /\ [][SendNext]_vars

---------------------------------------------------------------------------
(* The templated bulk send. *)

\* 0, 1, ..., n - 1
RECURSIVE Indices(_)
Indices(n) == IF n = 0 THEN <<>> ELSE Append(Indices(n - 1), n - 1)

\* The indices of the records of a list, in its order.
RECURSIVE IndexesOf(_)
IndexesOf(records) ==
    IF records = <<>> THEN <<>>
    ELSE <<records[1].index>> \o IndexesOf(Tail(records))

\* The loop of the templated send has been entered.
BulkStarted == send_pc = "loop" \/ (send_pc = "responded" /\ recipients # <<>>)

\* The templated send has answered.
BulkAnswered == send_pc = "responded" /\ recipients # <<>>

\* Whether index i is among the indices of the list.
Among(i, indexes) == \E k \in 1..Len(indexes) : indexes[k] = i

\* C30: every entry of recipients is attempted once and in order, a failing
\* entry is recorded and the later entries are attempted all the same,
\* recipients_sent plus the number of recorded errors is
\* recipients_attempted, and the response is 400 "No emails were sent" when
\* recipients_sent is 0 and 200 otherwise.
C30_TemplatedBulkSend ==
    BulkStarted =>
        /\ attempted = Indices(idx)
        /\ idx <= Len(recipients)
        /\ success_count = Len(outbox)
        /\ success_count + Len(errors) = Len(attempted)
        /\ \A i \in 0..(idx - 1) :
               Among(i, IndexesOf(errors)) # Among(i, IndexesOf(outbox))
        /\ \A k \in 1..Len(errors) :
               /\ errors[k].error # ""
               /\ errors[k].to = EntryTo(recipients[errors[k].index + 1])
        /\ BulkAnswered =>
               /\ idx = Len(recipients)
               /\ send_response.recipients_attempted = Len(recipients)
               /\ send_response.recipients_sent = success_count
               /\ send_response.recipients_sent + Len(errors)
                      = send_response.recipients_attempted
               /\ send_response.errors = FirstErrors(errors)
               /\ IF send_response.recipients_sent = 0
                  THEN /\ send_response.status = HTTP_400_BAD_REQUEST
                       /\ send_response.error = "No emails were sent"
                  ELSE send_response.status = HTTP_200_OK

\* Three entries: the first has no address, the second is sent, the third
\* fails in sending; the answer is 200 with one mail sent and two errors.
C30_Witness ==
    /\ BulkAnswered
    /\ Len(recipients) = 3
    /\ IndexesOf(errors) = <<0, 2>>
    /\ IndexesOf(outbox) = <<1>>
    /\ errors[1].error = "Invalid recipient 'to'"
    /\ errors[2].error = "Connection unexpectedly closed"
    /\ send_response.status = HTTP_200_OK
    /\ send_response.recipients_sent = 1

====
